---- MODULE Spec2Model ----
(***************************************************************************)
(* Winscope trace ingestion: ParserFactory (parsers/parser_factory.ts) and *)
(* TracePipeline (app/trace_pipeline.ts).                                  *)
(*                                                                         *)
(* A loadTraceFiles call is suspended at each of its awaits (the filter,   *)
(* the perfetto factory, every parser.parse(), the traces-parser factory); *)
(* one action models the code that runs between two awaits.                *)
(***************************************************************************)
EXTENDS Integers, Sequences, FiniteSets, TLC

(* ---------------------------------------------------------------------- *)
(* Bounds                                                                 *)
(* ---------------------------------------------------------------------- *)
\* longest list of files handed to one loadTraceFiles call
MaxFiles == 2
\* the parsers this.parsers may hold, with the files of the call, when
\* transition captures are loaded (SpecTransitions)
MaxTransitionParsers == 3
\* a loadTraceFiles call is made only while the parsers the session holds (in
\* this.parsers or in the factory's registry) and the files of the call
\* together stay within this many
MaxWindowParsers == 4

\* the entries of the trace a presenter shows, and the items its pinned list
\* may hold when a handler that formats the tree is called
MaxEntries == 2

MaxPinnedItems == 2

MaxParsers == 2

(* ---------------------------------------------------------------------- *)
(* Generic helpers for Map<K, V> and arrays                               *)
(* ---------------------------------------------------------------------- *)
EmptyMap == << >>

MapSet(m, k, v) == [x \in (DOMAIN m) \cup {k} |-> IF x = k THEN v ELSE m[x]]

MapDelete(m, k) == [x \in (DOMAIN m) \ {k} |-> m[x]]

(* ---------------------------------------------------------------------- *)
(* ParserFactory.PARSERS, ParserErrorType, ParserError                    *)
(* ---------------------------------------------------------------------- *)
PARSERS ==
  << "ParserAccessibility", "ParserInputMethodClients",
     "ParserInputMethodManagerService", "ParserInputMethodService",
     "ParserProtoLog", "ParserScreenRecording", "ParserScreenRecordingLegacy",
     "ParserSurfaceFlinger", "ParserTransactions", "ParserWindowManager",
     "ParserWindowManagerDump", "ParserEventLog", "ParserTransitionsWm",
     "ParserTransitionsShell", "ParserViewCapture" >>

ParserErrorType == {"CORRUPTED_ARCHIVE", "NO_INPUT_FILES", "UNSUPPORTED_FORMAT", "OVERRIDE"}

Undefined == "undefined"

ParserError(type, trace, traceType) == [type |-> type, trace |-> trace, traceType |-> traceType]

TimestampTypes == {"REAL", "ELAPSED"}

(* ---------------------------------------------------------------------- *)
(* Parsers and the trace files they are made from                         *)
(* ---------------------------------------------------------------------- *)
\* Parser<object>: what the factory and the pipeline read of a parser:
\* getTraceType(), getDescriptors(), getLengthEntries() and, per TimestampType,
\* whether getTimestamps(type) is defined (ts holds the types that are).
Parser(variant, type, descriptors, len, ts) ==
  [variant |-> variant, type |-> type, descriptors |-> descriptors, len |-> len, ts |-> ts]

\* the TraceType each variant of PARSERS reports from getTraceType()
VariantTraceType(variant) ==
  CASE variant = "ParserAccessibility" -> "ACCESSIBILITY"
    [] variant = "ParserInputMethodClients" -> "INPUT_METHOD_CLIENTS"
    [] variant = "ParserInputMethodManagerService" -> "INPUT_METHOD_MANAGER_SERVICE"
    [] variant = "ParserInputMethodService" -> "INPUT_METHOD_SERVICE"
    [] variant = "ParserProtoLog" -> "PROTO_LOG"
    [] variant = "ParserScreenRecording" -> "SCREEN_RECORDING"
    [] variant = "ParserScreenRecordingLegacy" -> "SCREEN_RECORDING"
    [] variant = "ParserSurfaceFlinger" -> "SURFACE_FLINGER"
    [] variant = "ParserTransactions" -> "TRANSACTIONS"
    [] variant = "ParserWindowManager" -> "WINDOW_MANAGER"
    [] variant = "ParserWindowManagerDump" -> "WINDOW_MANAGER"
    [] variant = "ParserEventLog" -> "EVENT_LOG"
    [] variant = "ParserTransitionsWm" -> "WM_TRANSITION"
    [] variant = "ParserTransitionsShell" -> "SHELL_TRANSITION"
    [] OTHER -> "VIEW_CAPTURE"

\* TraceFile: name is getDescriptor(); kind is what the classifier makes of it;
\* accepts holds the variants whose constructor and parse() do not throw on it;
\* len and ts are what a parser of the file reports; sub lists the window
\* parsers of a view capture file, or the trace tables of a unified bundle.
TraceFile(name, kind, accepts, len, ts, sub) ==
  [name |-> name, kind |-> kind, accepts |-> accepts, len |-> len, ts |-> ts, sub |-> sub]

SubTrace(type, len, ts) == [type |-> type, len |-> len, ts |-> ts]

SfSmall == TraceFile("sf_small.winscope", "legacy", {"ParserSurfaceFlinger"}, 1, {"ELAPSED"}, << >>)

SfBig == TraceFile("sf_big.winscope", "legacy", {"ParserSurfaceFlinger"}, 2, {"REAL", "ELAPSED"}, << >>)

SfTie == TraceFile("sf_tie.winscope", "legacy", {"ParserSurfaceFlinger"}, 2, {"REAL", "ELAPSED"}, << >>)

WmDual ==
  TraceFile("wm.winscope", "legacy", {"ParserWindowManager", "ParserWindowManagerDump"},
            2, {"REAL"}, << >>)

TrWm == TraceFile("wm_transition.winscope", "legacy", {"ParserTransitionsWm"}, 1, {"REAL", "ELAPSED"}, << >>)

TrShell ==
  TraceFile("shell_transition.winscope", "legacy", {"ParserTransitionsShell"}, 1,
            {"REAL", "ELAPSED"}, << >>)

ViewCapture ==
  TraceFile("view_capture.vc", "legacy", {"ParserViewCapture"}, 0, {},
            << SubTrace("VIEW_CAPTURE_LAUNCHER_ACTIVITY", 1, {"REAL", "ELAPSED"}),
               SubTrace("VIEW_CAPTURE_TASKBAR_DRAG_LAYER", 1, {"REAL", "ELAPSED"}) >>)

Junk == TraceFile("notes.txt", "legacy", {}, 0, {}, << >>)

BadZip == TraceFile("broken.zip", "corrupted", {}, 0, {}, << >>)

Bundle ==
  TraceFile("trace.perfetto-trace", "perfetto", {}, 0, {},
            << SubTrace("SURFACE_FLINGER", 1, {"REAL", "ELAPSED"}) >>)

\* a unified bundle that holds a transitions table
BundleTransitions ==
  TraceFile("transitions.perfetto-trace", "perfetto", {}, 0, {},
            << SubTrace("TRANSITION", 2, {"REAL", "ELAPSED"}) >>)

AllFiles == {SfSmall, SfBig, SfTie, WmDual, TrWm, TrShell, ViewCapture, Junk, BadZip, Bundle}

\* the lists of files one loadTraceFiles call may be given
FileLists ==
  {fs \in UNION {[1..n -> AllFiles] : n \in 0..MaxFiles} :
     Cardinality({i \in DOMAIN fs : fs[i].kind = "perfetto"}) <= 1}

(* ---------------------------------------------------------------------- *)
(* ParserFactory                                                          *)
(* ---------------------------------------------------------------------- *)
\* new ParserType(traceFile) followed by a parse() that did not throw
NewParser(variant, f) ==
  Parser(variant, VariantTraceType(variant), <<f.name>>, f.len, f.ts)

\* ParserViewCapture.windowParsers of a parsed view capture file
WindowParsers(f) ==
  [i \in DOMAIN f.sub |->
     Parser("ParserViewCapture", f.sub[i].type, <<f.name>>, f.sub[i].len, f.sub[i].ts)]

\* shouldUseParser with the replace branch reporting the newcomer, not the
\* parser it replaces
shouldUseParserReportsNewcomer(reg, newParser, errors) ==
  IF newParser.type \notin DOMAIN reg
    THEN [use |-> TRUE, errors |-> errors]
    ELSE [use |-> newParser.len > reg[newParser.type].len,
          errors |-> Append(errors,
                       ParserError("OVERRIDE", newParser.descriptors, newParser.type))]

\* shouldUseParser comparing with >=, so that a tie favours the newcomer
shouldUseParserTieReplaces(reg, newParser, errors) ==
  IF newParser.type \notin DOMAIN reg
    THEN [use |-> TRUE, errors |-> errors]
    ELSE LET oldParser == reg[newParser.type] IN
         IF newParser.len >= oldParser.len
           THEN [use |-> TRUE,
                 errors |-> Append(errors,
                              ParserError("OVERRIDE", oldParser.descriptors, oldParser.type))]
           ELSE [use |-> FALSE,
                 errors |-> Append(errors,
                              ParserError("OVERRIDE", newParser.descriptors, newParser.type))]

\* shouldUseParser(newParser, errors) against the registry reg (this.parsers of
\* the factory): use is the returned boolean, errors the list after the call
shouldUseParser(reg, newParser, errors) ==
  IF newParser.type \notin DOMAIN reg
    THEN [use |-> TRUE, errors |-> errors]
    ELSE LET oldParser == reg[newParser.type] IN
         IF newParser.len > oldParser.len
           THEN [use |-> TRUE,
                 errors |-> Append(errors,
                              ParserError("OVERRIDE", oldParser.descriptors, oldParser.type))]
           ELSE [use |-> FALSE,
                 errors |-> Append(errors,
                              ParserError("OVERRIDE", newParser.descriptors, newParser.type))]

\* maybeAddParser without `parsers.push({file: f, parser: p})`
maybeAddParserRegistersOnly(st, p, f) ==
  LET r == shouldUseParser(st.reg, p, st.errors) IN
  IF r.use
    THEN [reg |-> MapSet(st.reg, p.type, p), pairs |-> st.pairs, errors |-> r.errors]
    ELSE [reg |-> st.reg, pairs |-> st.pairs, errors |-> r.errors]

\* maybeAddParser with `parsers.unshift({file: f, parser: p})`
maybeAddParserUnshifts(st, p, f) ==
  LET r == shouldUseParser(st.reg, p, st.errors) IN
  IF r.use
    THEN [reg |-> MapSet(st.reg, p.type, p),
          pairs |-> << [file |-> f, parser |-> p] >> \o st.pairs,
          errors |-> r.errors]
    ELSE [reg |-> st.reg, pairs |-> st.pairs, errors |-> r.errors]

\* the closure maybeAddParser(p, f) of createParsers; st holds the factory's
\* registry and the locals `parsers` (pairs) and `errors` of createParsers
maybeAddParser(st, p, f) ==
  LET r == shouldUseParser(st.reg, p, st.errors) IN
  IF r.use
    THEN [reg |-> MapSet(st.reg, p.type, p),
          pairs |-> Append(st.pairs, [file |-> f, parser |-> p]),
          errors |-> r.errors]
    ELSE [reg |-> st.reg, pairs |-> st.pairs, errors |-> r.errors]

\* maybeAddParser applied to each candidate in turn
\* (parser.windowParsers.forEach((it) => maybeAddParser(it, traceFile)))
RECURSIVE forEachMaybeAddParser(_, _, _)
forEachMaybeAddParser(st, ps, f) ==
  IF ps = << >> THEN st
  ELSE forEachMaybeAddParser(maybeAddParser(st, Head(ps), f), Tail(ps), f)

\* the parsers a successfully parsed file hands to maybeAddParser: the window
\* parsers of a ParserViewCapture, else the parser itself
Candidates(variant, f) ==
  IF variant = "ParserViewCapture" THEN WindowParsers(f) ELSE << NewParser(variant, f) >>

\* removeParser(type)
removeParser(reg, type) == MapDelete(reg, type)

\* The frame of one loadTraceFiles call: where it is suspended (pc) and the
\* locals that live across its awaits.
\*   perfetto, legacy, errors : filterResult, errors being filterResult.errors
\*   fileIdx, varIdx, hasFoundParser, pairs, legacyErrors : createParsers'
\*     loop position and its locals `parsers` and `errors`
\*   tracesParsers : what tracesParserFactory.createParsers resolves to
\*   factory : the ParserFactory the createParsers call in flight runs on (its
\*     `this`). It is the pipeline's this.parserFactory unless clear() has
\*     replaced that object since createParsers was entered (detached); reg is
\*     then the registry of the replaced object.
\*   progressListener : whether the optional argument progressListener was
\*     given; progress : the percentages createParsers has handed to it
\* input is the call's argument.
IdleFrame ==
  [pc |-> "idle", input |-> << >>, perfetto |-> << >>, legacy |-> << >>, errors |-> << >>,
   fileIdx |-> 0, varIdx |-> 0, hasFoundParser |-> FALSE, pairs |-> << >>,
   legacyErrors |-> << >>, tracesParsers |-> << >>,
   factory |-> [detached |-> FALSE, reg |-> << >>],
   progressListener |-> FALSE, progress |-> << >>]

\* (index / traceFiles.length) * 100, kept as the fraction num / den
Percentage(index, length) == [num |-> index * 100, den |-> length]

\* onProgressUpdate with ((index + 1) / traceFiles.length) * 100
onProgressUpdateCountsDone(fr) ==
  IF fr.fileIdx <= Len(fr.legacy) /\ fr.progressListener
    THEN [fr EXCEPT !.progress = Append(@, Percentage(fr.fileIdx, Len(fr.legacy)))]
    ELSE fr

\* the head of one pass of `for (const [index, traceFile] of
\* traceFiles.entries())`, if there is a file left: progressListener?.
\* onProgressUpdate(..., (index / traceFiles.length) * 100); index is
\* fileIdx - 1
onProgressUpdate(fr) ==
  IF fr.fileIdx <= Len(fr.legacy) /\ fr.progressListener
    THEN [fr EXCEPT !.progress = Append(@, Percentage(fr.fileIdx - 1, Len(fr.legacy)))]
    ELSE fr

\* afterVariantLoop without the hasFoundParser test
afterVariantLoopAlwaysReports(fr) ==
  [fr EXCEPT
     !.legacyErrors = Append(@, ParserError("UNSUPPORTED_FORMAT",
                                            <<fr.legacy[fr.fileIdx].name>>, Undefined)),
     !.fileIdx = @ + 1,
     !.varIdx = 1,
     !.hasFoundParser = FALSE]

\* the end of one pass of `for (const ParserType of ParserFactory.PARSERS)`:
\* the UNSUPPORTED_FORMAT check, then the next file
afterVariantLoop(fr) ==
  onProgressUpdate(
    [fr EXCEPT
       !.legacyErrors =
          IF ~fr.hasFoundParser
            THEN Append(@, ParserError("UNSUPPORTED_FORMAT",
                                       <<fr.legacy[fr.fileIdx].name>>, Undefined))
            ELSE @,
       !.fileIdx = @ + 1,
       !.varIdx = 1,
       !.hasFoundParser = FALSE])

\* parseSettled without the break: a later variant is tried after a success
parseSettledNoBreak(fr, reg) ==
  LET f == fr.legacy[fr.fileIdx]
      variant == PARSERS[fr.varIdx]
      st0 == [reg |-> reg, pairs |-> fr.pairs, errors |-> fr.legacyErrors]
      st1 == IF variant \in f.accepts
               THEN forEachMaybeAddParser(st0, Candidates(variant, f), f)
               ELSE st0
      fr1 == [fr EXCEPT !.hasFoundParser = @ \/ variant \in f.accepts,
                        !.pairs = st1.pairs,
                        !.legacyErrors = st1.errors]
  IN [fr |-> IF fr.varIdx < Len(PARSERS) THEN [fr1 EXCEPT !.varIdx = @ + 1]
             ELSE afterVariantLoop(fr1),
      reg |-> st1.reg]

\* parseSettled with hasFoundParser set only when a pair was added
parseSettledFoundIfAdded(fr, reg) ==
  LET f == fr.legacy[fr.fileIdx]
      variant == PARSERS[fr.varIdx]
  IN
  IF variant \in f.accepts
    THEN LET st0 == [reg |-> reg, pairs |-> fr.pairs, errors |-> fr.legacyErrors]
             st1 == forEachMaybeAddParser(st0, Candidates(variant, f), f)
         IN [fr |-> afterVariantLoop([fr EXCEPT !.hasFoundParser = st1.pairs # fr.pairs,
                                                !.pairs = st1.pairs,
                                                !.legacyErrors = st1.errors]),
             reg |-> st1.reg]
    ELSE IF fr.varIdx < Len(PARSERS)
           THEN [fr |-> [fr EXCEPT !.varIdx = @ + 1], reg |-> reg]
           ELSE [fr |-> afterVariantLoop(fr), reg |-> reg]

\* createParsers resumed after `await parser.parse()` of variant varIdx on file
\* fileIdx has settled (or its constructor has thrown): the try block with its
\* break, or the catch and the next variant. Gives the frame and the registry.
parseSettled(fr, reg) ==
  LET f == fr.legacy[fr.fileIdx]
      variant == PARSERS[fr.varIdx]
  IN
  IF variant \in f.accepts
    THEN LET st0 == [reg |-> reg, pairs |-> fr.pairs, errors |-> fr.legacyErrors]
             st1 == forEachMaybeAddParser(st0, Candidates(variant, f), f)
         IN [fr |-> afterVariantLoop([fr EXCEPT !.hasFoundParser = TRUE,
                                                !.pairs = st1.pairs,
                                                !.legacyErrors = st1.errors]),
             reg |-> st1.reg]
    ELSE IF fr.varIdx < Len(PARSERS)
           THEN [fr |-> [fr EXCEPT !.varIdx = @ + 1], reg |-> reg]
           ELSE [fr |-> afterVariantLoop(fr), reg |-> reg]

(* ---------------------------------------------------------------------- *)
(* Collaborators of TracePipeline that the excerpt only calls             *)
(* ---------------------------------------------------------------------- *)
\* TraceFileFilter.filter: at most one unified bundle, the discrete files, and
\* one CORRUPTED_ARCHIVE error per file that cannot be read
filter(traceFiles) ==
  LET IsPerfetto(f) == f.kind = "perfetto"
      IsLegacy(f) == f.kind = "legacy"
      IsCorrupted(f) == f.kind = "corrupted"
      corrupted == SelectSeq(traceFiles, IsCorrupted)
  IN [perfetto |-> SelectSeq(traceFiles, IsPerfetto),
      legacy |-> SelectSeq(traceFiles, IsLegacy),
      errors |-> [i \in DOMAIN corrupted |->
                    ParserError("CORRUPTED_ARCHIVE", <<corrupted[i].name>>, Undefined)]]

\* PerfettoParserFactory.createParsers: one parser per trace table of the bundle
perfettoCreateParsers(f) ==
  [i \in DOMAIN f.sub |->
     Parser("Perfetto", f.sub[i].type, <<f.name>>, f.sub[i].len, f.sub[i].ts)]

\* the last parser of the given type in a list (a later setTrace replaces an
\* earlier one of the same type)
LastOfType(parsers, type) ==
  LET idx == {i \in DOMAIN parsers : parsers[i].type = type}
  IN parsers[CHOOSE i \in idx : \A j \in idx : j <= i]

HasType(parsers, type) == \E i \in DOMAIN parsers : parsers[i].type = type

Max(a, b) == IF a >= b THEN a ELSE b

\* TracesParserFactory.createParsers: the unified transition parser, made when
\* both a window-manager-side and a shell-side transition parser are present
tracesCreateParsers(parsers) ==
  IF HasType(parsers, "WM_TRANSITION") /\ HasType(parsers, "SHELL_TRANSITION")
    THEN LET wm == LastOfType(parsers, "WM_TRANSITION")
             shell == LastOfType(parsers, "SHELL_TRANSITION")
         IN << Parser("TracesParserTransitions", "TRANSITION",
                      wm.descriptors \o shell.descriptors,
                      Max(wm.len, shell.len), wm.ts \cap shell.ts) >>
    ELSE << >>

\* Trace.newUninitializedTrace(parser)
newUninitializedTrace(parser) ==
  [type |-> parser.type, parser |-> parser, timestampType |-> Undefined]

\* Trace.init(timestampType)
traceInit(trace, timestampType) == [trace EXCEPT !.timestampType = timestampType]

RECURSIVE setTraces(_, _)
\* setTraces that keeps the trace a type already has
\* (no overwrite by a later parser of the type)
setTracesKeepsFirst(trs, allParsers) ==
  IF allParsers = << >> THEN trs
  ELSE setTraces(IF Head(allParsers).type \in DOMAIN trs THEN trs
                 ELSE MapSet(trs, Head(allParsers).type, newUninitializedTrace(Head(allParsers))),
                 Tail(allParsers))

\* allParsers.forEach((parser) => this.traces.setTrace(parser.getTraceType(), trace))
setTraces(trs, allParsers) ==
  IF allParsers = << >> THEN trs
  ELSE setTraces(MapSet(trs, Head(allParsers).type, newUninitializedTrace(Head(allParsers))),
                 Tail(allParsers))

(* ---------------------------------------------------------------------- *)
(* TracePipeline                                                          *)
(* ---------------------------------------------------------------------- *)
VARIABLES
  parserFactory,        \* this.parserFactory.parsers : Map<TraceType, Parser>
  parsers,              \* this.parsers : Array<Parser>
  files,                \* this.files : Map<TraceType, TraceFile>
  traces,               \* this.traces : Traces, as a map TraceType -> Trace
  commonTimestampType,  \* this.commonTimestampType
  calls,                \* the frames of the loadTraceFiles calls in flight
  lastOp,               \* the call that returned last, and how it ended
  diff,                 \* the trees handed to the diff engine and its marks
  crossTool,            \* the timestamps exchanged with a remote tool
  build,                \* the frame of the buildTraces call in flight
  sfPresenter,          \* the Surface Flinger presenter and its handlers in flight
  wmPresenter,          \* the Window Manager presenter and its handlers in flight
  rootProperties,       \* the entry handed to AddRootProperties and what it made
  overlap               \* the inputs of the loadTraceFiles calls made on a pipeline that started empty

vars == <<parserFactory, parsers, files, traces, commonTimestampType, calls, lastOp, diff, crossTool, build, sfPresenter, wmPresenter, rootProperties, overlap>>

session == <<parserFactory, parsers, files, traces, commonTimestampType>>

Calls == {1, 2}

\* a returned call: its name, its argument (input for loadTraceFiles, type for
\* removeTrace), the errors loadTraceFiles returned, whether it threw, and
\* whether buildTraces got as far as the frame mapper
Op(op, input, type, errors, threw, frameMapper) ==
  [op |-> op, input |-> input, type |-> type, errors |-> errors, threw |-> threw,
   frameMapper |-> frameMapper]

NoOp == Op("none", << >>, Undefined, << >>, FALSE, "not started")

\* for (const fileAndParser of fileAndParsers) this.files.set(type, file)
RECURSIVE setFiles(_, _)
setFiles(fls, fileAndParsers) ==
  IF fileAndParsers = << >> THEN fls
  ELSE setFiles(MapSet(fls, Head(fileAndParsers).parser.type, Head(fileAndParsers).file),
                Tail(fileAndParsers))

\* publishedTraces with the second deleteTrace left out
publishedTracesKeepsShell(allParsers) ==
  LET all == setTraces(EmptyMap, allParsers)
      hasTransitionTrace == \E type \in DOMAIN all : type = "TRANSITION"
  IN IF hasTransitionTrace THEN MapDelete(all, "WM_TRANSITION") ELSE all

\* the Traces collection loadTraceFiles publishes from allParsers
publishedTraces(allParsers) ==
  LET all == setTraces(EmptyMap, allParsers)
      hasTransitionTrace == \E type \in DOMAIN all : type = "TRANSITION"
  IN IF hasTransitionTrace
       THEN MapDelete(MapDelete(all, "WM_TRANSITION"), "SHELL_TRANSITION")
       ELSE all

\* The part of the pipeline a loadTraceFiles call reads and writes, with the
\* call's frame: fr, reg (the factory's registry), parsers, files, traces, and
\* ret, the returned error list once returned is TRUE.
Machine(fr, reg, prs, fls, trs) ==
  [fr |-> fr, reg |-> reg, parsers |-> prs, files |-> fls, traces |-> trs,
   returned |-> FALSE, ret |-> << >>]

return(m, errors) == [m EXCEPT !.fr = IdleFrame, !.returned = TRUE, !.ret = errors]

\* the frame once createParsers(filterResult.legacy) has been entered
enterCreateParsers(fr) ==
  onProgressUpdate(
    [fr EXCEPT !.pc = "parse", !.fileIdx = 1, !.varIdx = 1, !.hasFoundParser = FALSE,
               !.pairs = << >>, !.legacyErrors = << >>])

\* filterSettled returning the classifier's errors with NO_INPUT_FILES
filterSettledReturnsFilterErrors(m) ==
  LET filterResult == filter(m.fr.input) IN
  IF filterResult.perfetto = << >> /\ Len(filterResult.legacy) = 0
    THEN return(m, Append(filterResult.errors,
                          ParserError("NO_INPUT_FILES", Undefined, Undefined)))
    ELSE LET fr == [m.fr EXCEPT !.perfetto = filterResult.perfetto,
                                !.legacy = filterResult.legacy,
                                !.errors = filterResult.errors]
         IN [m EXCEPT !.fr = IF filterResult.perfetto # << >>
                               THEN [fr EXCEPT !.pc = "perfetto"]
                               ELSE enterCreateParsers(fr)]

\* filterSettled with `this.traces = new Traces()` moved before the
\* NO_INPUT_FILES return
filterSettledResetsTraces(m) ==
  LET filterResult == filter(m.fr.input) IN
  IF filterResult.perfetto = << >> /\ Len(filterResult.legacy) = 0
    THEN return([m EXCEPT !.traces = EmptyMap],
                << ParserError("NO_INPUT_FILES", Undefined, Undefined) >>)
    ELSE LET fr == [m.fr EXCEPT !.perfetto = filterResult.perfetto,
                                !.legacy = filterResult.legacy,
                                !.errors = filterResult.errors]
         IN [m EXCEPT !.fr = IF filterResult.perfetto # << >>
                               THEN [fr EXCEPT !.pc = "perfetto"]
                               ELSE enterCreateParsers(fr)]

\* loadTraceFiles from `await this.traceFileFilter.filter(traceFiles)` to the
\* NO_INPUT_FILES return or to the next await
filterSettled(m) ==
  LET filterResult == filter(m.fr.input) IN
  IF filterResult.perfetto = << >> /\ Len(filterResult.legacy) = 0
    THEN return(m, << ParserError("NO_INPUT_FILES", Undefined, Undefined) >>)
    ELSE LET fr == [m.fr EXCEPT !.perfetto = filterResult.perfetto,
                                !.legacy = filterResult.legacy,
                                !.errors = filterResult.errors]
         IN [m EXCEPT !.fr = IF filterResult.perfetto # << >>
                               THEN [fr EXCEPT !.pc = "perfetto"]
                               ELSE enterCreateParsers(fr)]

\* the perfetto factory has resolved: its parsers join this.parsers
perfettoSettled(m) ==
  [m EXCEPT !.parsers = @ \o perfettoCreateParsers(m.fr.perfetto[1]),
            !.fr = enterCreateParsers(m.fr)]

\* one parse attempt of createParsers has settled
attemptSettled(m) ==
  LET r == parseSettled(m.fr, m.reg) IN [m EXCEPT !.fr = r.fr, !.reg = r.reg]

\* createParsers has returned [parsers, errors]: loadTraceFiles up to
\* `await this.tracesParserFactory.createParsers(this.parsers)`
createParsersSettled(m) ==
  LET newParsers == [i \in DOMAIN m.fr.pairs |-> m.fr.pairs[i].parser] IN
  [m EXCEPT !.files = setFiles(@, m.fr.pairs),
            !.parsers = @ \o newParsers,
            !.fr = [@ EXCEPT !.pc = "derive",
                             !.errors = @ \o m.fr.legacyErrors,
                             !.tracesParsers = tracesCreateParsers(m.parsers \o newParsers)]]

\* the traces-parser factory has resolved: the Traces collection is rebuilt and
\* loadTraceFiles returns its errors
tracesParsersSettled(m) ==
  return([m EXCEPT !.traces = publishedTraces(m.parsers \o m.fr.tracesParsers)],
         m.fr.errors)

\* the code of loadTraceFiles between the await it is suspended at and the next
step(m) ==
  CASE m.fr.pc = "filter" -> filterSettled(m)
    [] m.fr.pc = "perfetto" -> perfettoSettled(m)
    [] m.fr.pc = "parse" /\ m.fr.fileIdx <= Len(m.fr.legacy) -> attemptSettled(m)
    [] m.fr.pc = "parse" /\ m.fr.fileIdx > Len(m.fr.legacy) -> createParsersSettled(m)
    [] m.fr.pc = "derive" -> tracesParsersSettled(m)

\* a whole loadTraceFiles call that nothing interleaves with
RECURSIVE run(_)
run(m) == IF m.returned THEN m ELSE run(step(m))

\* the frame of loadTraceFiles(traceFiles) at its first await
called(traceFiles) == [IdleFrame EXCEPT !.pc = "filter", !.input = traceFiles]

priorityOrder == <<"REAL", "ELAPSED">>

Throw == "Error: Failed to find common timestamp type across all traces"

\* Variant of getCommonTimestampType without the early return of the cached
\* type: every call examines this.parsers.
getCommonTimestampTypeSelectsAnew(cached, prs) ==
  LET common == {i \in DOMAIN priorityOrder :
                   \A k \in DOMAIN prs : priorityOrder[i] \in prs[k].ts}
  IN IF common = {} THEN Throw
     ELSE priorityOrder[CHOOSE i \in common : \A j \in common : i <= j]

\* getCommonTimestampType() given the cached type and this.parsers: the type
\* it returns (and caches), or Throw
getCommonTimestampType(cached, prs) ==
  IF cached # Undefined THEN cached
  ELSE LET common == {i \in DOMAIN priorityOrder :
                        \A k \in DOMAIN prs : priorityOrder[i] \in prs[k].ts}
       IN IF common = {} THEN Throw
          ELSE priorityOrder[CHOOSE i \in common : \A j \in common : i <= j]

\* no remote tool has opened the tool
NoSession == [phase |-> "closed"]

\* The frame of one handler of the Surface Flinger presenter: the handler (op)
\* with its argument (arg), where it is suspended (pc) and the locals that
\* live across its awaits. Optional values are sequences of length 0 or 1.
\*   entry : the entry found for the position; awaited : the entry whose
\*     getValue() is awaited; hierarchyTree : the argument of
\*     formatHierarchyTreeAndUpdatePinnedItems; prev : prevEntryUiTree;
\*   formattedTree, formattedProperties : what the format calls resolve to;
\*   selected : the node whose getAllProperties() was called;
\*   stale : this.uiData, evaluated as the target of the assignment before the
\*     await, is no longer the presenter's this.uiData
SfIdleFrame ==
  [pc |-> "idle", op |-> "none", arg |-> << >>, entry |-> << >>, awaited |-> << >>,
   hierarchyTree |-> << >>, prev |-> << >>, formattedTree |-> << >>,
   formattedProperties |-> << >>, selected |-> << >>, stale |-> FALSE]

Handlers == {1, 2}

\* new UiData([TraceType.SURFACE_FLINGER])
SfUiData == [tree |-> << >>, propertiesTree |-> << >>]

\* the presenter after its constructor: the field initialisers (lines 78-149)
\* and the first copyUiDataAndNotifyView(); view is the copy the view was
\* notified with last, last the handler that returned last
NewSfPresenter ==
  [hierarchyFilter |-> "",
   highlightedItem |-> "",
   pinnedItems |-> << >>,
   pinnedIds |-> << >>,
   selectedHierarchyTree |-> << >>,
   previousEntry |-> << >>,
   previousHierarchyTree |-> << >>,
   currentHierarchyTree |-> << >>,
   hierarchyUserOptions |-> [showDiff |-> [enabled |-> FALSE, isUnavailable |-> FALSE]],
   propertiesUserOptions |-> [showDiff |-> [enabled |-> FALSE, isUnavailable |-> FALSE]],
   uiData |-> SfUiData,
   view |-> SfUiData,
   latest |-> << >>,
   last |-> [op |-> "none", arg |-> << >>, threw |-> FALSE],
   handlers |-> [h \in Handlers |-> SfIdleFrame]]

\* the Window Manager presenter after its constructor (lines 99-108): no
\* entry yet, showDiff disabled and available, an empty UiData sent to the view
WmIdleFrame == [pc |-> "idle", arg |-> << >>, entry |-> << >>, prevEntry |-> << >>]

NewWmPresenter ==
  [entry |-> << >>, previousEntry |-> << >>,
   hierarchyUserOptions |-> [showDiff |-> [enabled |-> FALSE, isUnavailable |-> FALSE]],
   propertiesUserOptions |-> [showDiff |-> [enabled |-> FALSE, isUnavailable |-> FALSE]],
   uiData |-> [tree |-> << >>],
   view |-> [tree |-> << >>],
   notified |-> << >>,
   handlers |-> [h \in Handlers |-> WmIdleFrame]]

\* AddRootProperties has not been handed an entry
NoRootProperties == [phase |-> "none", value |-> << >>, threw |-> FALSE, result |-> << >>]

\* no loadTraceFiles call has been made on the pipeline
NoOverlap == [inputs |-> << >>, ready |-> << >>]

\* no buildTraces call is in flight and none has started a frame mapper
NoBuild == [pc |-> "idle", frameMappers |-> << >>]

\* no tree has been handed to the diff engine
NoDiff == [phase |-> "none", edits |-> {}, modified |-> {}, modifiedProperties |-> {}]

Init ==
  /\ parserFactory = EmptyMap
  /\ parsers = << >>
  /\ files = EmptyMap
  /\ traces = EmptyMap
  /\ commonTimestampType = Undefined
  /\ calls = [c \in Calls |-> IdleFrame]
  /\ lastOp = NoOp
  /\ diff = NoDiff
  /\ crossTool = NoSession
  /\ build = NoBuild
  /\ sfPresenter = NewSfPresenter
  /\ wmPresenter = NewWmPresenter
  /\ rootProperties = NoRootProperties
  /\ overlap = NoOverlap

\* loadTraceFiles(traceFiles), called while no other call is in flight and
\* run to its return
LoadTraceFiles(traceFiles) ==
  /\ Max(Len(parsers), Cardinality(DOMAIN parserFactory)) + Len(traceFiles) <= MaxParsers
  /\ \E m \in {run(Machine(called(traceFiles), parserFactory, parsers, files, traces))} :
       /\ parserFactory' = m.reg
       /\ parsers' = m.parsers
       /\ files' = m.files
       /\ traces' = m.traces
       /\ lastOp' = Op("loadTraceFiles", traceFiles, Undefined, m.ret, FALSE, "not started")
  /\ UNCHANGED <<commonTimestampType, calls, diff, crossTool, build, sfPresenter, wmPresenter, rootProperties, overlap>>

\* removeTrace(trace), for a trace of the collection
RemoveTrace(type) ==
  /\ type \in DOMAIN traces
  /\ LET Keep(parser) == parser.type # type IN parsers' = SelectSeq(parsers, Keep)
  /\ traces' = MapDelete(traces, type)
  /\ lastOp' = Op("removeTrace", << >>, type, << >>, FALSE, "not started")
  /\ UNCHANGED <<parserFactory, files, commonTimestampType, calls, diff, crossTool, build, sfPresenter, wmPresenter, rootProperties, overlap>>

\* buildTraces()
BuildTraces ==
  LET type == getCommonTimestampType(commonTimestampType, parsers) IN
  IF type = Throw
    THEN /\ lastOp' = Op("buildTraces", << >>, Undefined, << >>, TRUE, "not started")
         /\ UNCHANGED <<session, calls, diff, crossTool, build, sfPresenter, wmPresenter, rootProperties, overlap>>
    ELSE /\ commonTimestampType' = type
         /\ traces' = [t \in DOMAIN traces |-> traceInit(traces[t], type)]
         /\ lastOp' = Op("buildTraces", << >>, Undefined, << >>, FALSE, "computed")
         /\ UNCHANGED <<parserFactory, parsers, files, calls, diff, crossTool, build, sfPresenter, wmPresenter, rootProperties, overlap>>

\* the frame of a call after `this.parserFactory = new ParserFactory()`: a
\* createParsers call in flight (entered at line 255, suspended at a parse())
\* stays on the object it was called on, whose registry is reg
detach(fr, reg) ==
  IF fr.pc = "parse" /\ ~fr.factory.detached
    THEN [fr EXCEPT !.factory = [detached |-> TRUE, reg |-> reg]]
    ELSE fr

\* clear() without `this.commonTimestampType = undefined`
ClearKeepsTimestampType ==
  /\ parserFactory' = EmptyMap
  /\ parsers' = << >>
  /\ traces' = EmptyMap
  /\ files' = EmptyMap
  /\ lastOp' = Op("clear", << >>, Undefined, << >>, FALSE, "not started")
  /\ calls' = [c \in Calls |-> detach(calls[c], parserFactory)]
  /\ UNCHANGED <<commonTimestampType, diff, crossTool, build, sfPresenter, wmPresenter, rootProperties, overlap>>

\* clear(). A createParsers call in flight keeps running on the factory object
\* that `this.parserFactory = new ParserFactory()` has replaced.
Clear ==
  /\ parserFactory' = EmptyMap
  /\ parsers' = << >>
  /\ traces' = EmptyMap
  /\ commonTimestampType' = Undefined
  /\ files' = EmptyMap
  /\ lastOp' = Op("clear", << >>, Undefined, << >>, FALSE, "not started")
  /\ calls' = [c \in Calls |-> detach(calls[c], parserFactory)]
  /\ UNCHANGED <<diff, crossTool, build, sfPresenter, wmPresenter, rootProperties, overlap>>

\* The caller serialises its calls, as the pipeline requires: every call runs
\* to its return before the next one is made.
Next ==
  \/ \E traceFiles \in FileLists : LoadTraceFiles(traceFiles)
  \/ \E type \in DOMAIN traces : RemoveTrace(type)
  \/ BuildTraces
  \/ Clear

Spec == Init /\ [][Next]_vars

(* ---------------------------------------------------------------------- *)
(* loadTraceFiles await by await                                          *)
(* ---------------------------------------------------------------------- *)
Suspended(c) == calls[c].pc # "idle"

NoCallInFlight == \A c \in Calls : ~Suspended(c)

\* the frame a new call takes: the lowest one that is not in use
FreeFrame(c) == ~Suspended(c) /\ \A d \in Calls : d < c => Suspended(d)

\* loadTraceFiles(traceFiles) is called and suspends at the filter's await
CallLoadTraceFiles(c, traceFiles) ==
  /\ FreeFrame(c)
  /\ Max(Len(parsers), Cardinality(DOMAIN parserFactory)) + Len(traceFiles) <= MaxParsers
  /\ calls' = [calls EXCEPT ![c] = called(traceFiles)]
  /\ lastOp' = NoOp
  /\ UNCHANGED <<session, diff, crossTool, build, sfPresenter, wmPresenter, rootProperties, overlap>>

\* the promise of this.parserFactory.createParsers(...) that the call awaits
\* at line 255 has been resolved: the loop over the files has ended
createParsersDone(fr) == fr.pc = "parse" /\ fr.fileIdx > Len(fr.legacy)

\* call c runs from the await it is suspended at to its next await or return;
\* the calls whose createParsers promise is resolved wait in overlap.ready
Resume(c) ==
  \E m \in {step(Machine(calls[c],
                         IF calls[c].factory.detached THEN calls[c].factory.reg
                         ELSE parserFactory,
                         parsers, files, traces))} :
    /\ parserFactory' = IF calls[c].factory.detached THEN parserFactory ELSE m.reg
    /\ parsers' = m.parsers
    /\ files' = m.files
    /\ traces' = m.traces
    /\ calls' = [calls EXCEPT ![c] = IF m.fr.factory.detached
                                       THEN [m.fr EXCEPT !.factory.reg = m.reg]
                                       ELSE m.fr]
    /\ lastOp' = IF m.returned
                   THEN Op("loadTraceFiles", calls[c].input, Undefined, m.ret, FALSE,
                           "not started")
                   ELSE lastOp
    /\ overlap' = [overlap EXCEPT !.ready =
                     IF createParsersDone(calls[c]) THEN Tail(@)
                     ELSE IF createParsersDone(m.fr) THEN Append(@, c)
                     ELSE @]
    /\ UNCHANGED <<commonTimestampType, diff, crossTool, build, sfPresenter, wmPresenter, rootProperties>>

FilterSettled(c) == calls[c].pc = "filter" /\ Resume(c)

PerfettoSettled(c) == calls[c].pc = "perfetto" /\ Resume(c)

AttemptSettled(c) ==
  calls[c].pc = "parse" /\ calls[c].fileIdx <= Len(calls[c].legacy) /\ Resume(c)

\* the continuations of resolved promises run in the order in which the
\* promises were resolved
CreateParsersSettled(c) ==
  /\ calls[c].pc = "parse" /\ calls[c].fileIdx > Len(calls[c].legacy)
  /\ overlap.ready # << >> /\ Head(overlap.ready) = c
  /\ Resume(c)

TracesParsersSettled(c) == calls[c].pc = "derive" /\ Resume(c)

NextAwait ==
  \/ \E c \in Calls, traceFiles \in FileLists : NoCallInFlight /\ CallLoadTraceFiles(c, traceFiles)
  \/ \E c \in Calls : FilterSettled(c)
  \/ \E c \in Calls : PerfettoSettled(c)
  \/ \E c \in Calls : AttemptSettled(c)
  \/ \E c \in Calls : CreateParsersSettled(c)
  \/ \E c \in Calls : TracesParsersSettled(c)

SpecAwait == Init /\ [][NextAwait]_vars

(* ---------------------------------------------------------------------- *)
(* Two loadTraceFiles calls that overlap                                  *)
(* ---------------------------------------------------------------------- *)
OverlapFiles == {SfSmall, SfBig, SfTie, TrWm, TrShell}

OverlapFileLists ==
  {<< f >> : f \in OverlapFiles} \cup {<< SfSmall, SfBig >>, << TrWm, TrShell >>}

\* loadTraceFiles(traceFiles) is called on a pipeline that started empty,
\* whether or not the call before it has returned
CallLoadTraceFilesOverlapping(c, traceFiles) ==
  /\ FreeFrame(c)
  /\ Len(overlap.inputs) < Cardinality(Calls)
  /\ calls' = [calls EXCEPT ![c] = called(traceFiles)]
  /\ lastOp' = NoOp
  /\ overlap' = [overlap EXCEPT !.inputs = Append(@, traceFiles)]
  /\ UNCHANGED <<session, diff, crossTool, build, sfPresenter, wmPresenter, rootProperties>>

NextOverlap ==
  \/ \E c \in Calls, traceFiles \in OverlapFileLists : CallLoadTraceFilesOverlapping(c, traceFiles)
  \/ \E c \in Calls : FilterSettled(c)
  \/ \E c \in Calls : AttemptSettled(c)
  \/ \E c \in Calls : CreateParsersSettled(c)
  \/ \E c \in Calls : TracesParsersSettled(c)

SpecOverlap == Init /\ [][NextOverlap]_vars

\* the pipeline after loadTraceFiles(first) and then loadTraceFiles(second),
\* each run to its return, on a pipeline that started empty
oneAfterTheOther(first, second) ==
  LET m1 == run(Machine(called(first), EmptyMap, << >>, EmptyMap, EmptyMap))
  IN run(Machine(called(second), m1.reg, m1.parsers, m1.files, m1.traces))

(* ---------------------------------------------------------------------- *)
(* loadTraceFiles with a progress listener                                *)
(* ---------------------------------------------------------------------- *)
\* loadTraceFiles(traceFiles, progressListener) is called and suspends at the
\* filter's await
CallLoadTraceFilesWithListener(c, traceFiles) ==
  /\ FreeFrame(c)
  /\ Max(Len(parsers), Cardinality(DOMAIN parserFactory)) + Len(traceFiles) <= MaxParsers
  /\ calls' = [calls EXCEPT ![c] = [called(traceFiles) EXCEPT !.progressListener = TRUE]]
  /\ lastOp' = NoOp
  /\ UNCHANGED <<session, diff, crossTool, build, sfPresenter, wmPresenter, rootProperties, overlap>>

NextProgress ==
  \/ \E c \in Calls, traceFiles \in FileLists :
       NoCallInFlight /\ CallLoadTraceFilesWithListener(c, traceFiles)
  \/ \E c \in Calls : FilterSettled(c)
  \/ \E c \in Calls : PerfettoSettled(c)
  \/ \E c \in Calls : AttemptSettled(c)
  \/ \E c \in Calls : CreateParsersSettled(c)
  \/ \E c \in Calls : TracesParsersSettled(c)

SpecProgress == Init /\ [][NextProgress]_vars

(* ---------------------------------------------------------------------- *)
(* Sessions of view captures                                              *)
(* ---------------------------------------------------------------------- *)
\* a view capture without windows
ViewCaptureEmpty == TraceFile("empty.vc", "legacy", {"ParserViewCapture"}, 0, {}, << >>)

\* a view capture whose windows are those of ViewCapture, the first with more
\* entries
ViewCaptureBig ==
  TraceFile("view_capture_big.vc", "legacy", {"ParserViewCapture"}, 0, {},
            << SubTrace("VIEW_CAPTURE_LAUNCHER_ACTIVITY", 2, {"REAL", "ELAPSED"}),
               SubTrace("VIEW_CAPTURE_TASKBAR_DRAG_LAYER", 1, {"REAL", "ELAPSED"}) >>)

ViewCaptureFiles == {ViewCapture, ViewCaptureEmpty, ViewCaptureBig, Junk}

ViewCaptureFileLists == UNION {[1..n -> ViewCaptureFiles] : n \in 0..MaxFiles}

\* loadTraceFiles(traceFiles) for a list of view captures is called and
\* suspends at the filter's await
CallLoadViewCaptureFiles(c, traceFiles) ==
  /\ FreeFrame(c)
  /\ Len(parsers) + Len(traceFiles) <= MaxWindowParsers
  /\ calls' = [calls EXCEPT ![c] = called(traceFiles)]
  /\ lastOp' = NoOp
  /\ UNCHANGED <<session, diff, crossTool, build, sfPresenter, wmPresenter, rootProperties, overlap>>

NextViewCapture ==
  \/ \E c \in Calls, traceFiles \in ViewCaptureFileLists :
       NoCallInFlight /\ CallLoadViewCaptureFiles(c, traceFiles)
  \/ \E c \in Calls : FilterSettled(c)
  \/ \E c \in Calls : AttemptSettled(c)
  \/ \E c \in Calls : CreateParsersSettled(c)
  \/ \E c \in Calls : TracesParsersSettled(c)

SpecViewCapture == Init /\ [][NextViewCapture]_vars

(* ---------------------------------------------------------------------- *)
(* clear() called at an await of a loadTraceFiles call                    *)
(* ---------------------------------------------------------------------- *)
\* clear() runs while a loadTraceFiles call is suspended; the call resumes
\* afterwards
ClearWhileSuspended == (\E c \in Calls : Suspended(c)) /\ Clear

NextAbandon == NextAwait \/ ClearWhileSuspended

SpecAbandon == Init /\ [][NextAbandon]_vars

(* ---------------------------------------------------------------------- *)
(* Sessions of transition captures: the raw window-manager-side and       *)
(* shell-side files, and a unified bundle with a transitions table        *)
(* ---------------------------------------------------------------------- *)
TransitionFiles == {BundleTransitions, TrWm, TrShell}

\* the lists of different transition captures one call may be given
TransitionFileLists ==
  {fs \in UNION {[1..n -> TransitionFiles] : n \in 0..Cardinality(TransitionFiles)} :
     \A i, j \in DOMAIN fs : fs[i] = fs[j] => i = j}

\* loadTraceFiles(traceFiles) for a list of transition captures, run to its
\* return
LoadTransitionFiles(traceFiles) ==
  /\ Len(parsers) + Len(traceFiles) <= MaxTransitionParsers
  /\ \E m \in {run(Machine(called(traceFiles), parserFactory, parsers, files, traces))} :
       /\ parserFactory' = m.reg
       /\ parsers' = m.parsers
       /\ files' = m.files
       /\ traces' = m.traces
       /\ lastOp' = Op("loadTraceFiles", traceFiles, Undefined, m.ret, FALSE, "not started")
  /\ UNCHANGED <<commonTimestampType, calls, diff, crossTool, build, sfPresenter, wmPresenter, rootProperties, overlap>>

NextTransitions ==
  \/ \E traceFiles \in TransitionFileLists : LoadTransitionFiles(traceFiles)
  \/ \E type \in DOMAIN traces : RemoveTrace(type)
  \/ BuildTraces
  \/ Clear

SpecTransitions == Init /\ [][NextTransitions]_vars

(* ---------------------------------------------------------------------- *)
(* Hierarchy and property tree diff of the Surface Flinger presenter      *)
(* (viewers/viewer_surface_flinger/presenter.ts)                          *)
(* ---------------------------------------------------------------------- *)
\* the most properties in which the new tree differs from the old one
MaxEdits == 2

DENYLIST_PROPERTY_NAMES == {"name", "children", "dpiX", "dpiY"}

\* PropertyTreeNode: name, source, the decoded value (raw) and the children
PropertyTreeNode(name, source, raw, children) ==
  [name |-> name, source |-> source, raw |-> raw, children |-> children]

\* UiHierarchyTreeNode: id, isRoot(), getAllProperties() and the children
HierarchyTreeNode(id, isRoot, properties, children) ==
  [id |-> id, isRoot |-> isRoot, properties |-> properties, children |-> children]

\* UiPropertyTreeNode.formattedValue(): the rendered value; every non-zero
\* decoded value renders alike
formattedValue(node) == IF node.raw = 0 THEN "false" ELSE "true"

\* the properties every layer of the trees has: name and source of the
\* top-level leaves, and of the leaves of the interior property `bounds`
LayerLeaves ==
  << [name |-> "name", source |-> "PROTO"],
     [name |-> "z", source |-> "PROTO"],
     [name |-> "cornerRadius", source |-> "CALCULATED"] >>

BoundsLeaves ==
  << [name |-> "left", source |-> "PROTO"],
     [name |-> "dpiX", source |-> "PROTO"],
     [name |-> "area", source |-> "CALCULATED"] >>

LeafPaths ==
  {<<LayerLeaves[i].name>> : i \in DOMAIN LayerLeaves}
    \cup {<<"bounds", BoundsLeaves[i].name>> : i \in DOMAIN BoundsLeaves}

\* the layers: root holds A and C, A holds B
NodeIds == {"root", "A", "B", "C"}

\* an edit gives the leaf at path of a layer another decoded value (set), or
\* takes the leaf out of the tree (drop)
AllEdits ==
  [node : NodeIds, path : LeafPaths, kind : {"set"}, raw : {1, 2}]
    \cup [node : NodeIds, path : LeafPaths, kind : {"drop"}, raw : {0}]

\* the sets of at most n edits, no two of them of one leaf
RECURSIVE EditSets(_)
EditSets(n) ==
  IF n = 0 THEN {{}}
  ELSE LET fewer == EditSets(n - 1) IN
       fewer \cup
         {E \cup {e} : <<E, e>> \in
            {x \in fewer \X AllEdits :
               \A d \in x[1] : d.node # x[2].node \/ d.path # x[2].path}}

\* the leaves of a template that the edits leave in the tree of a layer
PresentLeaves(id, prefix, template, edits) ==
  LET RawAt(path) ==
        IF \E e \in edits : e.node = id /\ e.path = path /\ e.kind = "set"
          THEN (CHOOSE e \in edits : e.node = id /\ e.path = path).raw
          ELSE 0
      all == [i \in DOMAIN template |->
                PropertyTreeNode(template[i].name, template[i].source,
                                 RawAt(Append(prefix, template[i].name)), << >>)]
      Present(leaf) ==
        ~\E e \in edits :
           e.node = id /\ e.path = Append(prefix, leaf.name) /\ e.kind = "drop"
  IN SelectSeq(all, Present)

\* getAllProperties() of a layer
Properties(id, edits) ==
  PropertyTreeNode(id, "PROTO", 0,
    PresentLeaves(id, << >>, LayerLeaves, edits)
      \o << PropertyTreeNode("bounds", "PROTO", 0,
                             PresentLeaves(id, <<"bounds">>, BoundsLeaves, edits)) >>)

\* the hierarchy tree of an entry whose properties have all decoded value 0,
\* but for the edits
Tree(edits) ==
  HierarchyTreeNode("root", TRUE, Properties("root", edits),
    << HierarchyTreeNode("A", FALSE, Properties("A", edits),
         << HierarchyTreeNode("B", FALSE, Properties("B", edits), << >>) >>),
       HierarchyTreeNode("C", FALSE, Properties("C", edits), << >>) >>)

\* getChildByName(name): the child, or no node (an empty sequence stands for
\* undefined, a sequence of one node for the node)
getChildByName(node, name) ==
  LET idx == {i \in DOMAIN node.children : node.children[i].name = name}
  IN IF idx = {} THEN << >>
     ELSE << node.children[CHOOSE i \in idx : \A j \in idx : i <= j] >>

\* isPropertyNodeModified comparing the decoded values, not formattedValue()
isPropertyNodeModifiedComparesRaw(newTree, oldTree) ==
  IF newTree = << >> /\ oldTree = << >> THEN FALSE
  ELSE IF newTree = << >> \/ oldTree = << >> THEN TRUE
  ELSE oldTree[1].raw # newTree[1].raw

\* isPropertyNodeModified(newTree, oldTree)
isPropertyNodeModified(newTree, oldTree) ==
  IF newTree = << >> /\ oldTree = << >> THEN FALSE
  ELSE IF newTree = << >> \/ oldTree = << >> THEN TRUE
  ELSE formattedValue(oldTree[1]) # formattedValue(newTree[1])

RECURSIVE isChildPropertyModified(_, _)
RECURSIVE forNewProperty(_, _, _)
\* the loop of isChildPropertyModified without
\* `if (newProperty.source === PropertySource.CALCULATED) continue`
forNewPropertyComparesCalculated(newProperties, oldProperties, i) ==
  IF i > Len(newProperties.children) THEN FALSE
  ELSE LET newProperty == newProperties.children[i]
           oldProperty == getChildByName(oldProperties, newProperty.name)
           continue == forNewProperty(newProperties, oldProperties, i + 1)
       IN IF newProperty.name \in DENYLIST_PROPERTY_NAMES THEN continue
          ELSE IF oldProperty = << >> THEN TRUE
          ELSE IF Len(newProperty.children) = 0
            THEN IF isPropertyNodeModified(<< newProperty >>, oldProperty)
                   THEN TRUE ELSE continue
          ELSE IF isChildPropertyModified(newProperty, oldProperty[1])
            THEN TRUE ELSE continue

\* the loop of isChildPropertyModified with the old property taken at the
\* position of the new one, not by `oldProperties.getChildByName(newProperty.name)`
forNewPropertyMatchesByPosition(newProperties, oldProperties, i) ==
  IF i > Len(newProperties.children) THEN FALSE
  ELSE LET newProperty == newProperties.children[i]
           oldProperty == IF i <= Len(oldProperties.children)
                            THEN << oldProperties.children[i] >> ELSE << >>
           continue == forNewProperty(newProperties, oldProperties, i + 1)
       IN IF newProperty.name \in DENYLIST_PROPERTY_NAMES THEN continue
          ELSE IF newProperty.source = "CALCULATED" THEN continue
          ELSE IF oldProperty = << >> THEN TRUE
          ELSE IF Len(newProperty.children) = 0
            THEN IF isPropertyNodeModified(<< newProperty >>, oldProperty)
                   THEN TRUE ELSE continue
          ELSE IF isChildPropertyModified(newProperty, oldProperty[1])
            THEN TRUE ELSE continue

\* the loop `for (const newProperty of newProperties.getAllChildren())` of
\* isChildPropertyModified from child i on
forNewProperty(newProperties, oldProperties, i) ==
  IF i > Len(newProperties.children) THEN FALSE
  ELSE LET newProperty == newProperties.children[i]
           oldProperty == getChildByName(oldProperties, newProperty.name)
           continue == forNewProperty(newProperties, oldProperties, i + 1)
       IN IF newProperty.name \in DENYLIST_PROPERTY_NAMES THEN continue
          ELSE IF newProperty.source = "CALCULATED" THEN continue
          ELSE IF oldProperty = << >> THEN TRUE
          ELSE IF Len(newProperty.children) = 0
            THEN IF isPropertyNodeModified(<< newProperty >>, oldProperty)
                   THEN TRUE ELSE continue
          ELSE IF isChildPropertyModified(newProperty, oldProperty[1])
            THEN TRUE ELSE continue

\* isChildPropertyModified(newProperties, oldProperties)
isChildPropertyModified(newProperties, oldProperties) ==
  forNewProperty(newProperties, oldProperties, 1)

\* isHierarchyTreeModified without
\* `if ((newTree as UiHierarchyTreeNode).isRoot()) return false`
isHierarchyTreeModifiedComparesRoot(newTree, oldTree) ==
  IF newTree = << >> /\ oldTree = << >> THEN FALSE
  ELSE IF newTree = << >> \/ oldTree = << >> THEN TRUE
  ELSE isChildPropertyModified(newTree[1].properties, oldTree[1].properties)

\* isHierarchyTreeModified with the isRoot() test ahead of
\* `if (!newTree || !oldTree) return true`
isHierarchyTreeModifiedRootFirst(newTree, oldTree) ==
  IF newTree = << >> /\ oldTree = << >> THEN FALSE
  ELSE IF newTree # << >> /\ newTree[1].isRoot THEN FALSE
  ELSE IF newTree = << >> \/ oldTree = << >> THEN TRUE
  ELSE isChildPropertyModified(newTree[1].properties, oldTree[1].properties)

\* isHierarchyTreeModified(newTree, oldTree)
isHierarchyTreeModified(newTree, oldTree) ==
  IF newTree = << >> /\ oldTree = << >> THEN FALSE
  ELSE IF newTree = << >> \/ oldTree = << >> THEN TRUE
  ELSE IF newTree[1].isRoot THEN FALSE
  ELSE isChildPropertyModified(newTree[1].properties, oldTree[1].properties)

\* the nodes of a hierarchy tree
RECURSIVE nodesOf(_)
nodesOf(tree) ==
  {tree} \cup UNION {nodesOf(tree.children[i]) : i \in DOMAIN tree.children}

\* the node of a tree with the given id, matched by id and not by position
findById(tree, id) ==
  IF \E node \in nodesOf(tree) : node.id = id
    THEN << CHOOSE node \in nodesOf(tree) : node.id = id >>
    ELSE << >>

\* AddDiffsHierarchyTree(isHierarchyTreeModified).executeInPlace(uiTree,
\* prevEntryUiTree): the ids of the nodes of the new tree it marks as modified
AddDiffsHierarchyTree(uiTree, prevEntryUiTree) ==
  {node.id : node \in
     {n \in nodesOf(uiTree) :
        isHierarchyTreeModified(<< n >>, findById(prevEntryUiTree, n.id))}}

\* AddDiffsPropertiesTree(isPropertyNodeModified).executeInPlace on the
\* properties of one node: the paths of the properties it marks as modified
RECURSIVE AddDiffsPropertiesTree(_, _, _)
AddDiffsPropertiesTree(uiTree, prevEntryUiTree, prefix) ==
  UNION {LET child == uiTree.children[i]
             old == IF prevEntryUiTree = << >> THEN << >>
                    ELSE getChildByName(prevEntryUiTree[1], child.name)
             path == Append(prefix, child.name)
         IN (IF isPropertyNodeModified(<< child >>, old) THEN {path} ELSE {})
              \cup AddDiffsPropertiesTree(child, old, path)
         : i \in DOMAIN uiTree.children}

\* the trees of the current entry and of the previous one
NewTree == Tree(diff.edits)

OldTree == Tree({})

\* a pipeline that nothing is loaded into, and the trees of two entries
InitDiff ==
  /\ parserFactory = EmptyMap
  /\ parsers = << >>
  /\ files = EmptyMap
  /\ traces = EmptyMap
  /\ commonTimestampType = Undefined
  /\ calls = [c \in Calls |-> IdleFrame]
  /\ lastOp = NoOp
  /\ crossTool = NoSession
  /\ build = NoBuild
  /\ sfPresenter = NewSfPresenter
  /\ wmPresenter = NewWmPresenter
  /\ rootProperties = NoRootProperties
  /\ overlap = NoOverlap
  /\ diff \in {[phase |-> "drawn", edits |-> E, modified |-> {}, modifiedProperties |-> {}] :
                 E \in EditSets(MaxEdits)}

\* the presenter diffs the hierarchy tree, and the properties of every node,
\* against the previous entry's
ExecuteInPlace ==
  /\ diff.phase = "drawn"
  /\ diff' = [diff EXCEPT
       !.phase = "diffed",
       !.modified = AddDiffsHierarchyTree(NewTree, OldTree),
       !.modifiedProperties =
          UNION {{<<n.id, path>> :
                    path \in AddDiffsPropertiesTree(n.properties,
                                                    << findById(OldTree, n.id)[1].properties >>,
                                                    << >>)}
                 : n \in nodesOf(NewTree)}]
  /\ UNCHANGED <<session, calls, lastOp, crossTool, build, sfPresenter, wmPresenter, rootProperties, overlap>>

NextDiff == ExecuteInPlace

SpecDiff == InitDiff /\ [][NextDiff]_vars

(* ---------------------------------------------------------------------- *)
(* The two callbacks of the presenter on one node of each tree            *)
(* ---------------------------------------------------------------------- *)
\* the sets of at most n edits of the layer A
LayerEditSets(n) == {E \in EditSets(n) : \A e \in E : e.node = "A"}

\* an argument of a callback: undefined, or the layer A, root of its tree or
\* not, with the properties the edits give it
Absent == [present |-> FALSE, isRoot |-> FALSE, edits |-> {}]

Arguments(n) ==
  {Absent} \cup [present : {TRUE}, isRoot : BOOLEAN, edits : LayerEditSets(n)]

\* the node an argument stands for
nodeOf(arg) ==
  IF arg.present
    THEN << HierarchyTreeNode("A", arg.isRoot, Properties("A", arg.edits), << >>) >>
    ELSE << >>

\* the property z of the node an argument stands for
leafOf(arg) ==
  IF arg.present THEN getChildByName(Properties("A", arg.edits), "z") ELSE << >>

NoResult == [hierarchy |-> FALSE, property |-> FALSE]

\* a new and an old node that differ from the layer whose properties have
\* all decoded value 0 in at most MaxEdits leaves
InitCompare ==
  /\ parserFactory = EmptyMap
  /\ parsers = << >>
  /\ files = EmptyMap
  /\ traces = EmptyMap
  /\ commonTimestampType = Undefined
  /\ calls = [c \in Calls |-> IdleFrame]
  /\ lastOp = NoOp
  /\ crossTool = NoSession
  /\ build = NoBuild
  /\ sfPresenter = NewSfPresenter
  /\ wmPresenter = NewWmPresenter
  /\ rootProperties = NoRootProperties
  /\ overlap = NoOverlap
  /\ diff \in {[phase |-> "drawn", newTree |-> x[1], oldTree |-> x[2], result |-> NoResult] :
                 x \in {y \in Arguments(MaxEdits) \X Arguments(MaxEdits) :
                          Cardinality(y[1].edits) + Cardinality(y[2].edits) <= MaxEdits}}

\* isHierarchyTreeModified is called with the two nodes, and
\* isPropertyNodeModified with their properties z
IsModified ==
  /\ diff.phase = "drawn"
  /\ diff' = [diff EXCEPT
       !.phase = "compared",
       !.result = [hierarchy |-> isHierarchyTreeModified(nodeOf(diff.newTree), nodeOf(diff.oldTree)),
                   property |-> isPropertyNodeModified(leafOf(diff.newTree), leafOf(diff.oldTree))]]
  /\ UNCHANGED <<session, calls, lastOp, crossTool, build, sfPresenter, wmPresenter, rootProperties, overlap>>

\* a property tree with the deny-listed and the calculated properties taken
\* out at every level
RECURSIVE withoutExcluded(_)
withoutExcluded(node) ==
  LET Kept(p) == p.name \notin DENYLIST_PROPERTY_NAMES /\ p.source # "CALCULATED"
      kept == SelectSeq(node.children, Kept)
  IN [node EXCEPT !.children = [i \in DOMAIN kept |-> withoutExcluded(kept[i])]]

\* isChildPropertyModified is called on the properties of the two nodes, less
\* the deny-listed and calculated ones, with the new node first (forward) and
\* with the old node first (backward)
CompareChildrenBothWays ==
  /\ diff.phase = "drawn"
  /\ diff.newTree.present /\ diff.oldTree.present
  /\ \E a \in {withoutExcluded(Properties("A", diff.newTree.edits))} :
     \E b \in {withoutExcluded(Properties("A", diff.oldTree.edits))} :
       diff' = [diff EXCEPT
         !.phase = "children compared",
         !.result = [forward |-> isChildPropertyModified(a, b),
                     backward |-> isChildPropertyModified(b, a)]]
  /\ UNCHANGED <<session, calls, lastOp, crossTool, build, sfPresenter, wmPresenter, rootProperties, overlap>>

NextCompare == IsModified \/ CompareChildrenBothWays

SpecCompare == InitCompare /\ [][NextCompare]_vars

(* ---------------------------------------------------------------------- *)
(* Cross-tool protocol: timestamps exchanged with a remote tool           *)
(* (test/e2e/cross_tool_protocol_test.ts)                                 *)
(* ---------------------------------------------------------------------- *)
\* the latest boot-time second a remote tool sends
MaxBootSeconds == 15

\* A nanosecond timestamp is a bigint. It is kept as its seconds s and its
\* nanoseconds within the second ns, that is s * Base + ns with 0 <= ns < Base.
Base == 1000000000

Ns(s, ns) == [s |-> s, ns |-> ns]

\* bigint addition and subtraction
plus(a, b) ==
  IF a.ns + b.ns >= Base
    THEN Ns(a.s + b.s + 1, a.ns + b.ns - Base)
    ELSE Ns(a.s + b.s, a.ns + b.ns)

minus(a, b) ==
  IF a.ns - b.ns < 0
    THEN Ns(a.s - b.s - 1, a.ns - b.ns + Base)
    ELSE Ns(a.s - b.s, a.ns - b.ns)

\* the timestamps of the test `allows communication with Perfetto`
REAL_TO_BOOTTIME_OFFSET == Ns(1659107074, 601779989)

TIMESTAMP_IN_FILES_MESSAGE_REALTIME == Ns(1659107090, 327674405)

TIMESTAMP_FROM_PERFETTO_BOOTTIME == Ns(15, 795654466)

TIMESTAMP_FROM_PERFETTO_REALTIME == Ns(1659107090, 397434455)

TIMESTAMP_FROM_WINSCOPE_BOOTTIME == Ns(15, 970486213)

TIMESTAMP_FROM_WINSCOPE_REALTIME == Ns(1659107090, 572266202)

\* the real-to-boottime offsets of the traces a remote tool sends
Offsets == {REAL_TO_BOOTTIME_OFFSET, Ns(1659107074, 0), Ns(0, 0)}

\* the boot-time timestamps a remote tool sends: those of the test, and
\* others with and without a carry into the seconds when the test's offset is
\* added
BootTimestamps ==
  {TIMESTAMP_FROM_PERFETTO_BOOTTIME, TIMESTAMP_FROM_WINSCOPE_BOOTTIME}
    \cup {Ns(sec, ns) : sec \in {0, 1, MaxBootSeconds},
                        ns \in {0, 1, 398220010, 398220011, 999999999}}

\* the real timestamps the user sets in the tool
RealTimestamps(offset) == {plus(e, offset) : e \in BootTimestamps}

\* the real timestamp the tool shows for a boot-time timestamp of a trace,
\* and the boot-time timestamp it sends out for a real one
toReal(elapsed, offset) == plus(elapsed, offset)

toBoottime(real, offset) == minus(real, offset)

\* the remote tool has sent its files, the traces are viewed and the tool
\* shows the timestamp of the first entry
InitCrossTool ==
  /\ parserFactory = EmptyMap
  /\ parsers = << >>
  /\ files = EmptyMap
  /\ traces = EmptyMap
  /\ commonTimestampType = Undefined
  /\ calls = [c \in Calls |-> IdleFrame]
  /\ lastOp = NoOp
  /\ diff = NoDiff
  /\ crossTool \in {[phase |-> "viewing", offset |-> k,
                     current |-> plus(minus(TIMESTAMP_IN_FILES_MESSAGE_REALTIME,
                                            REAL_TO_BOOTTIME_OFFSET), k),
                     received |-> << >>,
                     last |-> [op |-> "none", value |-> Ns(0, 0)]] : k \in Offsets}
  /\ build = NoBuild
  /\ sfPresenter = NewSfPresenter
  /\ wmPresenter = NewWmPresenter
  /\ rootProperties = NoRootProperties
  /\ overlap = NoOverlap

\* sendBoottimeTimestampToWinscope(e) that shows the tool a timestamp without
\* the offset
SendBoottimeTimestampToWinscopeUnconverted(elapsed) ==
  /\ crossTool.phase = "viewing"
  /\ crossTool' = [crossTool EXCEPT
       !.current = elapsed,
       !.last = [op |-> "boottime from remote tool", value |-> elapsed]]
  /\ UNCHANGED <<session, calls, lastOp, diff, build, sfPresenter, wmPresenter, rootProperties, overlap>>

\* sendBoottimeTimestampToWinscope(e): the remote tool sends a boot-time
\* timestamp, and the tool shows the real timestamp for it
SendBoottimeTimestampToWinscope(elapsed) ==
  /\ crossTool.phase = "viewing"
  /\ crossTool' = [crossTool EXCEPT
       !.current = toReal(elapsed, crossTool.offset),
       !.last = [op |-> "boottime from remote tool", value |-> elapsed]]
  /\ UNCHANGED <<session, calls, lastOp, diff, build, sfPresenter, wmPresenter, rootProperties, overlap>>

\* sendTimestampToRemoteTool(r): the user sets a real timestamp in the tool,
\* and the remote tool receives the boot-time timestamp for it
SendTimestampToRemoteTool(real) ==
  /\ crossTool.phase = "viewing"
  /\ crossTool' = [crossTool EXCEPT
       !.current = real,
       !.received = << toBoottime(real, crossTool.offset) >>,
       !.last = [op |-> "real to remote tool", value |-> real]]
  /\ UNCHANGED <<session, calls, lastOp, diff, build, sfPresenter, wmPresenter, rootProperties, overlap>>

NextCrossTool ==
  \/ \E elapsed \in BootTimestamps : SendBoottimeTimestampToWinscope(elapsed)
  \/ \E real \in RealTimestamps(crossTool.offset) : SendTimestampToRemoteTool(real)

SpecCrossTool == InitCrossTool /\ [][NextCrossTool]_vars

(* ---------------------------------------------------------------------- *)
(* buildTraces up to and after its await                                  *)
(* ---------------------------------------------------------------------- *)
\* new FrameMapper(traces): the mapper holds the collection it was made for;
\* computed tells whether its computeMapping() has resolved
FrameMapper(trs) == [traces |-> trs, computed |-> FALSE]

\* buildTraces() with the frame mapper made before the traces are initialised
CallBuildTracesMapsFirst ==
  /\ build.pc = "idle"
  /\ LET type == getCommonTimestampType(commonTimestampType, parsers) IN
     IF type = Throw
       THEN /\ lastOp' = Op("buildTraces", << >>, Undefined, << >>, TRUE, "not started")
            /\ build' = NoBuild
            /\ UNCHANGED <<session, calls, diff, crossTool, sfPresenter, wmPresenter, rootProperties, overlap>>
       ELSE /\ commonTimestampType' = type
            /\ traces' = [t \in DOMAIN traces |-> traceInit(traces[t], type)]
            /\ build' = [pc |-> "computeMapping", frameMappers |-> << FrameMapper(traces) >>]
            /\ lastOp' = NoOp
            /\ UNCHANGED <<parserFactory, parsers, files, calls, diff, crossTool, sfPresenter, wmPresenter, rootProperties, overlap>>

\* buildTraces() is called: it resolves the common timestamp type (and ends
\* there if that throws), initialises every trace, makes the frame mapper for
\* this.traces and suspends at `await ...computeMapping()`
CallBuildTraces ==
  /\ build.pc = "idle"
  /\ LET type == getCommonTimestampType(commonTimestampType, parsers) IN
     IF type = Throw
       THEN /\ lastOp' = Op("buildTraces", << >>, Undefined, << >>, TRUE, "not started")
            /\ build' = NoBuild
            /\ UNCHANGED <<session, calls, diff, crossTool, sfPresenter, wmPresenter, rootProperties, overlap>>
       ELSE /\ commonTimestampType' = type
            /\ traces' = [t \in DOMAIN traces |-> traceInit(traces[t], type)]
            /\ build' = [pc |-> "computeMapping",
                         frameMappers |-> << FrameMapper([t \in DOMAIN traces |->
                                                           traceInit(traces[t], type)]) >>]
            /\ lastOp' = NoOp
            /\ UNCHANGED <<parserFactory, parsers, files, calls, diff, crossTool, sfPresenter, wmPresenter, rootProperties, overlap>>

\* computeMapping() has resolved: buildTraces returns and the mapper, which
\* no field holds, is dropped
ComputeMappingSettled ==
  /\ build.pc = "computeMapping"
  /\ build' = NoBuild
  /\ lastOp' = Op("buildTraces", << >>, Undefined, << >>, FALSE, "computed")
  /\ UNCHANGED <<session, calls, diff, crossTool, sfPresenter, wmPresenter, rootProperties, overlap>>

\* The caller serialises its calls: no other call is made while buildTraces
\* is suspended.
NextBuild ==
  \/ \E traceFiles \in FileLists : build.pc = "idle" /\ LoadTraceFiles(traceFiles)
  \/ \E type \in DOMAIN traces : build.pc = "idle" /\ RemoveTrace(type)
  \/ build.pc = "idle" /\ Clear
  \/ CallBuildTraces
  \/ ComputeMappingSettled

SpecBuild == Init /\ [][NextBuild]_vars

(* ---------------------------------------------------------------------- *)
(* The Surface Flinger presenter                                          *)
(* (viewers/viewer_surface_flinger/presenter.ts)                          *)
(* ---------------------------------------------------------------------- *)
\* the entries of this.trace, by index; the value of entry i is the hierarchy
\* tree i
Entries == 0 .. (MaxEntries - 1)

\* the positions of a TRACE_POSITION_UPDATE: the entry that
\* TraceEntryFinder.findCorrespondingEntry finds for it, or none
Positions == {<< >>} \cup {<< i >> : i \in Entries}

findCorrespondingEntry(position) == position

\* the ids of the nodes of hierarchy tree i, in depth-first order
IdOrder == << "root", "A", "B" >>

HierarchyIds(i) ==
  IF i = 0 THEN {"root", "A"} ELSE IF i % 2 = 1 THEN {"root", "A", "B"} ELSE {"root", "B"}

FilterStrings == {"", "B"}

\* UiTreeUtils.makeIdFilter(filterString) on a node id
Includes(id, filterString) == filterString = "" \/ id = filterString

\* what the view hands back as user options: the options it was given with
\* showDiff.enabled as the user has set it
UserOptionsOf(options) ==
  {[options EXCEPT !.showDiff.enabled = enabled] : enabled \in BOOLEAN}

\* the nodes of a formatted tree
ItemsOf(tree) ==
  LET all == [k \in DOMAIN IdOrder |-> [id |-> IdOrder[k], entry |-> tree.entry]]
      In(item) == item.id \in tree.ids
  IN SelectSeq(all, In)

\* getPinnedItems(tree): the nodes of the tree whose id is in pinnedIds
getPinnedItems(tree, pinnedIds) ==
  LET Pinned(item) == \E k \in DOMAIN pinnedIds : pinnedIds[k] = item.id
  IN SelectSeq(ItemsOf(tree), Pinned)

\* copyUiDataAndNotifyView()
copyUiDataAndNotifyView(p) == [p EXCEPT !.view = p.uiData]

\* handler h returns
returnFrom(p, h) ==
  [p EXCEPT !.handlers[h] = SfIdleFrame,
            !.last = [op |-> p.handlers[h].op, arg |-> p.handlers[h].arg, threw |-> FALSE]]

\* handler h ends with a TypeError (a method called on undefined)
throwFrom(p, h) ==
  [p EXCEPT !.handlers[h] = SfIdleFrame,
            !.last = [op |-> p.handlers[h].op, arg |-> p.handlers[h].arg, threw |-> TRUE]]

\* the tail of formatHierarchyTreeAndUpdatePinnedItems (lines 642-671): the
\* tree is filtered and its pinned nodes are pushed to this.pinnedItems; diff
\* is << >> when no diff was added, else << prevEntryUiTree >>
finishFormatHierarchy(p, h, diffed) ==
  LET fr == p.handlers[h]
      i == fr.hierarchyTree[1]
      formattedTree ==
        [entry |-> i,
         ids |-> {id \in HierarchyIds(i) : id = "root" \/ Includes(id, p.hierarchyFilter)},
         diff |-> diffed]
  IN [p EXCEPT !.pinnedItems = @ \o getPinnedItems(formattedTree, p.pinnedIds),
               !.handlers[h] = [fr EXCEPT !.formattedTree = << formattedTree >>,
                                          !.pc = "formatHierarchy.return"]]

\* `this.uiData.tree = await this.formatHierarchyTreeAndUpdatePinnedItems(
\* hierarchyTree)` up to its first await (lines 622-641): the target
\* this.uiData is evaluated, then the call runs to the await of the previous
\* entry's value, to the await of the diff, or to its return
formatHierarchyTreeAndUpdatePinnedItems(p, h, hierarchyTree) ==
  LET fr == [p.handlers[h] EXCEPT !.hierarchyTree = hierarchyTree, !.stale = FALSE,
                                  !.formattedTree = << >>]
      p0 == [p EXCEPT !.handlers[h] = fr]
  IN IF hierarchyTree = << >>
       THEN [p EXCEPT !.handlers[h] = [fr EXCEPT !.pc = "formatHierarchy.return"]]
     ELSE IF p.hierarchyUserOptions.showDiff.enabled
               /\ ~p.hierarchyUserOptions.showDiff.isUnavailable
       THEN IF p.previousEntry # << >> /\ p.previousHierarchyTree = << >>
              THEN [p EXCEPT !.handlers[h] =
                      [fr EXCEPT !.pc = "hierarchy.previousEntry.getValue",
                                 !.awaited = p.previousEntry]]
              ELSE [p EXCEPT !.handlers[h] =
                      [fr EXCEPT !.pc = "hierarchy.executeInPlace",
                                 !.prev = p.previousHierarchyTree]]
     ELSE finishFormatHierarchy(p0, h, << >>)

\* formatPropertiesTree after this.previousHierarchyTree is there (lines
\* 689-695): the node of the previous tree with the id of the selected node
findPrevEntryNode(p, h) ==
  LET fr == p.handlers[h]
      id == fr.selected[1].id
      found == /\ p.previousHierarchyTree # << >>
               /\ id \in HierarchyIds(p.previousHierarchyTree[1])
  IN IF found
       THEN [p EXCEPT !.handlers[h] =
               [fr EXCEPT !.pc = "prevEntryNode.getAllProperties",
                          !.prev = << [id |-> id, entry |-> p.previousHierarchyTree[1]] >>]]
       ELSE [p EXCEPT !.handlers[h] =
               [fr EXCEPT !.pc = "properties.executeInPlace", !.prev = << >>]]

\* `this.uiData.propertiesTree = await this.formatPropertiesTree(...)` up to
\* its first await (lines 676-688)
formatPropertiesTree(p, h) ==
  LET fr == [p.handlers[h] EXCEPT !.stale = FALSE, !.formattedProperties = << >>]
      p0 == [p EXCEPT !.handlers[h] = fr]
  IN IF p.propertiesUserOptions.showDiff.enabled
          /\ ~p.propertiesUserOptions.showDiff.isUnavailable
       THEN IF p.previousEntry # << >> /\ p.previousHierarchyTree = << >>
              THEN [p EXCEPT !.handlers[h] =
                      [fr EXCEPT !.pc = "properties.previousEntry.getValue",
                                 !.awaited = p.previousEntry]]
              ELSE findPrevEntryNode(p0, h)
       ELSE [p EXCEPT !.handlers[h] =
               [fr EXCEPT !.pc = "formatProperties.return",
                          !.formattedProperties =
                             << [id |-> fr.selected[1].id, entry |-> fr.selected[1].entry,
                                 diff |-> << >>] >>]]

\* updateSelectedTreeUiData() up to its first await (lines 418-421), and the
\* same statements inside the position update (lines 225-227)
updateSelectedTreeUiData(p, h) ==
  IF p.selectedHierarchyTree # << >>
    THEN [p EXCEPT !.handlers[h] = [@ EXCEPT !.pc = "getAllProperties",
                                             !.selected = p.selectedHierarchyTree]]
    ELSE returnFrom(copyUiDataAndNotifyView(p), h)

\* this.currentHierarchyTree.findDfs(UiTreeUtils.makeIdMatchFilter(id))
findDfs(hierarchyTree, id) ==
  IF id \in HierarchyIds(hierarchyTree[1])
    THEN << [id |-> id, entry |-> hierarchyTree[1]] >>
    ELSE << >>

\* the position update after `await entry?.getValue()` (lines 181-210), with
\* isUnavailable left as it is
entryValueSettledKeepsAvailability(p, h) ==
  LET fr == p.handlers[h]
      entry == fr.entry
      previousEntry == IF entry # << >> /\ entry[1] > 0 THEN << entry[1] - 1 >> ELSE << >>
      p1 == [p EXCEPT
               !.currentHierarchyTree = entry,
               !.previousEntry = previousEntry,
               !.previousHierarchyTree = << >>,
               !.uiData = SfUiData,
               !.handlers = [k \in Handlers |->
                               IF k # h /\ p.handlers[k].pc # "idle"
                                 THEN [p.handlers[k] EXCEPT !.stale = TRUE]
                                 ELSE p.handlers[k]]]
  IN IF entry # << >>
       THEN formatHierarchyTreeAndUpdatePinnedItems([p1 EXCEPT !.pinnedItems = << >>], h, entry)
       ELSE returnFrom(copyUiDataAndNotifyView(p1), h)

\* the position update after `await entry?.getValue()` has settled (lines
\* 181-210): the fields of the position, the availability of showDiff, a new
\* UiData, and the call of formatHierarchyTreeAndUpdatePinnedItems
entryValueSettled(p, h) ==
  LET fr == p.handlers[h]
      entry == fr.entry
      previousEntry == IF entry # << >> /\ entry[1] > 0 THEN << entry[1] - 1 >> ELSE << >>
      p1 == [p EXCEPT
               !.currentHierarchyTree = entry,
               !.previousEntry = previousEntry,
               !.previousHierarchyTree = << >>,
               !.hierarchyUserOptions.showDiff.isUnavailable = (previousEntry = << >>),
               !.propertiesUserOptions.showDiff.isUnavailable = (previousEntry = << >>),
               !.uiData = SfUiData,
               !.handlers = [k \in Handlers |->
                               IF k # h /\ p.handlers[k].pc # "idle"
                                 THEN [p.handlers[k] EXCEPT !.stale = TRUE]
                                 ELSE p.handlers[k]]]
  IN IF entry # << >>
       THEN formatHierarchyTreeAndUpdatePinnedItems([p1 EXCEPT !.pinnedItems = << >>], h, entry)
       ELSE returnFrom(copyUiDataAndNotifyView(p1), h)

\* the caller of formatHierarchyTreeAndUpdatePinnedItems after its await: the
\* tree goes to the UiData that was this.uiData when the call was made; the
\* position update goes on to the selected node (lines 216-238), the other
\* handlers notify the view
formatHierarchyReturned(p, h) ==
  LET fr == p.handlers[h]
      p1 == IF fr.stale THEN p ELSE [p EXCEPT !.uiData.tree = fr.formattedTree]
  IN IF fr.op = "onAppEvent"
       THEN IF p1.highlightedItem # "" /\ p1.uiData.tree # << >>
              THEN IF p1.currentHierarchyTree = << >> THEN throwFrom(p1, h)
                   ELSE LET selectedItem == findDfs(p1.currentHierarchyTree, p1.highlightedItem)
                        IN IF selectedItem # << >>
                             THEN updateSelectedTreeUiData(
                                    [p1 EXCEPT !.selectedHierarchyTree = selectedItem], h)
                             ELSE returnFrom(copyUiDataAndNotifyView(p1), h)
              ELSE returnFrom(copyUiDataAndNotifyView(p1), h)
       ELSE returnFrom(copyUiDataAndNotifyView(p1), h)

\* the code of a handler between the await it is suspended at and the next
sfStep(p, h) ==
  LET fr == p.handlers[h] IN
  CASE fr.pc = "initializeIfNeeded" ->
         [p EXCEPT !.handlers[h] = [fr EXCEPT !.pc = "entry.getValue",
                                              !.entry = findCorrespondingEntry(fr.arg),
                                              !.awaited = findCorrespondingEntry(fr.arg)]]
    [] fr.pc = "entry.getValue" -> entryValueSettled(p, h)
    [] fr.pc = "hierarchy.previousEntry.getValue" ->
         [p EXCEPT !.previousHierarchyTree = fr.awaited,
                   !.handlers[h] = [fr EXCEPT !.pc = "hierarchy.executeInPlace",
                                              !.prev = fr.awaited]]
    [] fr.pc = "hierarchy.executeInPlace" -> finishFormatHierarchy(p, h, << fr.prev >>)
    [] fr.pc = "formatHierarchy.return" -> formatHierarchyReturned(p, h)
    [] fr.pc = "getAllProperties" ->
         IF p.selectedHierarchyTree = << >> THEN throwFrom(p, h) ELSE formatPropertiesTree(p, h)
    [] fr.pc = "properties.previousEntry.getValue" ->
         findPrevEntryNode([p EXCEPT !.previousHierarchyTree = fr.awaited], h)
    [] fr.pc = "prevEntryNode.getAllProperties" ->
         [p EXCEPT !.handlers[h] = [fr EXCEPT !.pc = "properties.executeInPlace"]]
    [] fr.pc = "properties.executeInPlace" ->
         [p EXCEPT !.handlers[h] =
            [fr EXCEPT !.pc = "formatProperties.return",
                       !.formattedProperties =
                          << [id |-> fr.selected[1].id, entry |-> fr.selected[1].entry,
                              diff |-> << fr.prev >>] >>]]
    [] fr.pc = "formatProperties.return" ->
         returnFrom(copyUiDataAndNotifyView(
                      IF fr.stale THEN p
                      ELSE [p EXCEPT !.uiData.propertiesTree = fr.formattedProperties]), h)

\* a handler is called: its frame
calledSf(p, h, op, arg) ==
  [p EXCEPT !.handlers[h] = [SfIdleFrame EXCEPT !.op = op, !.arg = arg],
            !.last = [op |-> "none", arg |-> << >>, threw |-> FALSE]]

InFlight(h) == sfPresenter.handlers[h].pc # "idle"

NoHandlerInFlight == \A h \in Handlers : ~InFlight(h)

FreeHandler(h) == ~InFlight(h) /\ \A k \in Handlers : k < h => InFlight(k)

Others == <<parserFactory, parsers, files, traces, commonTimestampType, calls, lastOp, diff,
            crossTool, build, wmPresenter, rootProperties, overlap>>

\* onAppEvent(TRACE_POSITION_UPDATE) is called and suspends at
\* `await this.initializeIfNeeded()`
OnAppEvent(h, position) ==
  /\ FreeHandler(h)
  /\ sfPresenter' = [calledSf(sfPresenter, h, "onAppEvent", position)
                       EXCEPT !.handlers[h].pc = "initializeIfNeeded",
                              !.latest = position]
  /\ UNCHANGED Others

\* onPinnedItemChange(pinnedItem), for a node of the tree the view shows
OnPinnedItemChange(pinnedItem) ==
  /\ Len(sfPresenter.pinnedItems) < MaxPinnedItems
  /\ LET pinnedId == pinnedItem.id
         Has(item) == item.id = pinnedId
         Other(item) == item.id # pinnedId
         OtherId(id) == id # pinnedId
         pinnedItems == IF SelectSeq(sfPresenter.pinnedItems, Has) # << >>
                          THEN SelectSeq(sfPresenter.pinnedItems, Other)
                          ELSE Append(sfPresenter.pinnedItems, pinnedItem)
         pinnedIds == IF \E k \in DOMAIN sfPresenter.pinnedIds :
                           sfPresenter.pinnedIds[k] = pinnedId
                        THEN SelectSeq(sfPresenter.pinnedIds, OtherId)
                        ELSE Append(sfPresenter.pinnedIds, pinnedId)
     IN sfPresenter' = copyUiDataAndNotifyView(
          [sfPresenter EXCEPT !.pinnedItems = pinnedItems,
                              !.pinnedIds = pinnedIds,
                              !.last = [op |-> "onPinnedItemChange", arg |-> << pinnedItem >>,
                                        threw |-> FALSE]])
  /\ UNCHANGED Others

\* onHierarchyUserOptionsChange(userOptions)
OnHierarchyUserOptionsChange(h, userOptions) ==
  /\ FreeHandler(h)
  /\ Len(sfPresenter.pinnedItems) < MaxPinnedItems
  /\ sfPresenter' = formatHierarchyTreeAndUpdatePinnedItems(
       [calledSf(sfPresenter, h, "onHierarchyUserOptionsChange", << userOptions >>)
          EXCEPT !.hierarchyUserOptions = userOptions],
       h, sfPresenter.currentHierarchyTree)
  /\ UNCHANGED Others

\* onHierarchyFilterChange(filterString)
OnHierarchyFilterChange(h, filterString) ==
  /\ FreeHandler(h)
  /\ Len(sfPresenter.pinnedItems) < MaxPinnedItems
  /\ sfPresenter' = formatHierarchyTreeAndUpdatePinnedItems(
       [calledSf(sfPresenter, h, "onHierarchyFilterChange", << filterString >>)
          EXCEPT !.hierarchyFilter = filterString],
       h, sfPresenter.currentHierarchyTree)
  /\ UNCHANGED Others

\* onPropertiesUserOptionsChange(userOptions)
OnPropertiesUserOptionsChange(h, userOptions) ==
  /\ FreeHandler(h)
  /\ sfPresenter' = updateSelectedTreeUiData(
       [calledSf(sfPresenter, h, "onPropertiesUserOptionsChange", << userOptions >>)
          EXCEPT !.propertiesUserOptions = userOptions], h)
  /\ UNCHANGED Others

\* onHighlightedIdChange(newId)
OnHighlightedIdChange(h, newId) ==
  /\ FreeHandler(h)
  /\ sfPresenter' = updateSelectedTreeUiData(
       [calledSf(sfPresenter, h, "onHighlightedIdChange", << newId >>)
          EXCEPT !.highlightedItem = IF sfPresenter.highlightedItem = newId THEN "" ELSE newId,
                 !.selectedHierarchyTree =
                    IF sfPresenter.currentHierarchyTree = << >> THEN << >>
                    ELSE findDfs(sfPresenter.currentHierarchyTree, newId)], h)
  /\ UNCHANGED Others

\* handler h runs from the await it is suspended at to its next await or return
SfResume(h) ==
  /\ InFlight(h)
  /\ sfPresenter' = sfStep(sfPresenter, h)
  /\ UNCHANGED Others

\* The view and the app deliver one event at a time: a handler is called when
\* the one before has returned.
NextSfPresenter ==
  \/ \E h \in Handlers, position \in Positions : NoHandlerInFlight /\ OnAppEvent(h, position)
  \/ \E pinnedItem \in {i \in [id : HierarchyIds(1), entry : Entries] :
                          /\ sfPresenter.view.tree # << >>
                          /\ i.entry = sfPresenter.view.tree[1].entry
                          /\ i.id \in sfPresenter.view.tree[1].ids} :
       NoHandlerInFlight /\ OnPinnedItemChange(pinnedItem)
  \/ \E h \in Handlers, userOptions \in UserOptionsOf(sfPresenter.hierarchyUserOptions) :
       NoHandlerInFlight /\ OnHierarchyUserOptionsChange(h, userOptions)
  \/ \E h \in Handlers, filterString \in FilterStrings :
       NoHandlerInFlight /\ OnHierarchyFilterChange(h, filterString)
  \/ \E h \in Handlers, userOptions \in UserOptionsOf(sfPresenter.propertiesUserOptions) :
       NoHandlerInFlight /\ OnPropertiesUserOptionsChange(h, userOptions)
  \/ \E h \in Handlers, newId \in {"A"} : NoHandlerInFlight /\ OnHighlightedIdChange(h, newId)
  \/ \E h \in Handlers : SfResume(h)

SpecSfPresenter == Init /\ [][NextSfPresenter]_vars

\* Position updates that overlap: a second TRACE_POSITION_UPDATE is delivered
\* while the handler of the first is suspended, and the suspended handlers
\* resume in the order in which what they wait for settles. The user options
\* change between the position updates.
NextSfOverlap ==
  \/ \E h \in Handlers, position \in Positions : OnAppEvent(h, position)
  \/ \E h \in Handlers, userOptions \in UserOptionsOf(sfPresenter.hierarchyUserOptions) :
       NoHandlerInFlight /\ OnHierarchyUserOptionsChange(h, userOptions)
  \/ \E h \in Handlers : SfResume(h)

SpecSfOverlap == Init /\ [][NextSfOverlap]_vars

(* ---------------------------------------------------------------------- *)
(* The Window Manager presenter                                           *)
(* (viewers/viewer_window_manager/presenter.ts)                           *)
(* ---------------------------------------------------------------------- *)
WmOthers == <<parserFactory, parsers, files, traces, commonTimestampType, calls, lastOp, diff,
              crossTool, build, sfPresenter, rootProperties, overlap>>

WmInFlight(h) == wmPresenter.handlers[h].pc # "idle"

WmFreeHandler(h) == ~WmInFlight(h) /\ \A k \in Handlers : k < h => WmInFlight(k)

\* generateTree() (lines 283-308): null without an entry; else the tree of
\* this.entry, compared with this.previousEntry when showDiff is enabled and
\* available
generateTree(p) ==
  IF p.entry = << >> THEN << >>
  ELSE << [entry |-> p.entry[1],
           diff |-> IF \/ ~p.hierarchyUserOptions.showDiff.enabled
                       \/ p.hierarchyUserOptions.showDiff.isUnavailable
                      THEN << >>
                      ELSE << p.previousEntry >>] >>

\* copyUiDataAndNotifyView() at the end of a position update: what the view
\* is sent, and the entries the presenter holds at that moment
notifyViewOfPosition(p) ==
  [p EXCEPT !.view = p.uiData,
            !.notified = << [entry |-> p.entry, previousEntry |-> p.previousEntry] >>]

\* onAppEvent(TRACE_POSITION_UPDATE) up to `await entry?.getValue()` (lines
\* 173-178)
WmOnAppEvent(h, position) ==
  /\ WmFreeHandler(h)
  /\ LET entry == findCorrespondingEntry(position)
         prevEntry == IF entry # << >> /\ entry[1] > 0 THEN << entry[1] - 1 >> ELSE << >>
     IN wmPresenter' = [wmPresenter EXCEPT !.handlers[h] =
          [pc |-> "entry.getValue", arg |-> position, entry |-> entry, prevEntry |-> prevEntry]]
  /\ UNCHANGED WmOthers

\* the value of the entry has settled: `this.entry = ... ?? null`, and the
\* handler suspends at `await prevEntry?.getValue()` (lines 178-179)
WmEntryValueSettled(h) ==
  /\ wmPresenter.handlers[h].pc = "entry.getValue"
  /\ wmPresenter' = [wmPresenter EXCEPT !.entry = wmPresenter.handlers[h].entry,
                                        !.handlers[h].pc = "prevEntry.getValue"]
  /\ UNCHANGED WmOthers

\* the value of the previous entry has settled: the rest of the handler
\* (lines 179-200)
WmPrevEntryValueSettled(h) ==
  /\ wmPresenter.handlers[h].pc = "prevEntry.getValue"
  /\ LET previousEntry == wmPresenter.handlers[h].prevEntry
         p1 == [wmPresenter EXCEPT
                  !.previousEntry = previousEntry,
                  !.hierarchyUserOptions.showDiff.isUnavailable = (previousEntry = << >>),
                  !.propertiesUserOptions.showDiff.isUnavailable = (previousEntry = << >>),
                  !.uiData = [tree |-> << >>],
                  !.handlers[h] = WmIdleFrame]
     IN wmPresenter' = notifyViewOfPosition([p1 EXCEPT !.uiData.tree = generateTree(p1)])
  /\ UNCHANGED WmOthers

\* updateHierarchyTree(userOptions) (lines 145-150)
UpdateHierarchyTree(userOptions) ==
  /\ userOptions # wmPresenter.hierarchyUserOptions
  /\ LET p1 == [wmPresenter EXCEPT !.hierarchyUserOptions = userOptions]
         p2 == [p1 EXCEPT !.uiData.tree = generateTree(p1)]
     IN wmPresenter' = [p2 EXCEPT !.view = p2.uiData]
  /\ UNCHANGED WmOthers

NextWmPresenter ==
  \/ \E h \in Handlers, position \in Positions : WmOnAppEvent(h, position)
  \/ \E h \in Handlers : WmEntryValueSettled(h)
  \/ \E h \in Handlers : WmPrevEntryValueSettled(h)
  \/ \E userOptions \in UserOptionsOf(wmPresenter.hierarchyUserOptions) :
       UpdateHierarchyTree(userOptions)

SpecWmPresenter == Init /\ [][NextWmPresenter]_vars

(* ---------------------------------------------------------------------- *)
(* AddRootProperties                                                      *)
(* (parsers/transitions/operations/add_root_properties.ts)                *)
(* ---------------------------------------------------------------------- *)
\* a child that getChildByName may find: << >> when the node has no child of
\* that name, else << its value >>
TransitionIds == {<< >>, << 1 >>, << 2 >>}

WmOffsets == {<< >>, << 10 >>}

ShellOffsets == {<< >>, << 20 >>}

\* the entries of a unified transition trace handed to the operation: wmData
\* and shellData, each missing or with its children, and an 'aborted' child
\* or none
RootValues ==
  [id : {"entry"},
   wmData : {<< >>} \cup {<< d >> : d \in [id : TransitionIds,
                                            realToElapsedTimeOffsetNs : WmOffsets]},
   shellData : {<< >>} \cup {<< d >> : d \in [id : TransitionIds,
                                               realToElapsedTimeOffsetNs : ShellOffsets]},
   aborted : BOOLEAN]

\* DEFAULT_PROPERTY_TREE_NODE_FACTORY.makeCalculatedProperty(rootId, name, value)
makeCalculatedProperty(rootId, name, value) ==
  [rootId |-> rootId, name |-> name, value |-> value, source |-> "CALCULATED"]

\* assertDefined(value) fails on undefined
assertDefined(value) == value # << >>

\* a ?? b on two children
Coalesce(a, b) == IF a # << >> THEN a ELSE b

\* makeProperties with the offset taken from shellData first whether or not
\* the entry has an 'aborted' child
makePropertiesShellFirst(value) ==
  IF ~assertDefined(value.wmData) \/ ~assertDefined(value.shellData)
    THEN [threw |-> TRUE, result |-> << >>]
  ELSE
    LET wmData == value.wmData[1]
        shellData == value.shellData[1]
        id == Coalesce(wmData.id, shellData.id)
        realToElapsedTimeOffsetNs ==
          Coalesce(shellData.realToElapsedTimeOffsetNs, wmData.realToElapsedTimeOffsetNs)
    IN IF ~assertDefined(id) \/ ~assertDefined(realToElapsedTimeOffsetNs)
         THEN [threw |-> TRUE, result |-> << >>]
         ELSE [threw |-> FALSE,
               result |-> << makeCalculatedProperty(value.id, "id", id[1]),
                             makeCalculatedProperty(value.id, "realToElapsedTimeOffsetNs",
                                                    realToElapsedTimeOffsetNs[1]) >>]

\* makeProperties(value) (lines 23-47)
makeProperties(value) ==
  IF ~assertDefined(value.wmData) \/ ~assertDefined(value.shellData)
    THEN [threw |-> TRUE, result |-> << >>]
  ELSE
    LET wmData == value.wmData[1]
        shellData == value.shellData[1]
        id == Coalesce(wmData.id, shellData.id)
        realToElapsedTimeOffsetNs ==
          IF value.aborted
            THEN Coalesce(wmData.realToElapsedTimeOffsetNs, shellData.realToElapsedTimeOffsetNs)
            ELSE Coalesce(shellData.realToElapsedTimeOffsetNs, wmData.realToElapsedTimeOffsetNs)
    IN IF ~assertDefined(id) \/ ~assertDefined(realToElapsedTimeOffsetNs)
         THEN [threw |-> TRUE, result |-> << >>]
         ELSE [threw |-> FALSE,
               result |-> << makeCalculatedProperty(value.id, "id", id[1]),
                             makeCalculatedProperty(value.id, "realToElapsedTimeOffsetNs",
                                                    realToElapsedTimeOffsetNs[1]) >>]

InitRootProperties ==
  /\ parserFactory = EmptyMap
  /\ parsers = << >>
  /\ files = EmptyMap
  /\ traces = EmptyMap
  /\ commonTimestampType = Undefined
  /\ calls = [c \in Calls |-> IdleFrame]
  /\ lastOp = NoOp
  /\ diff = NoDiff
  /\ crossTool = NoSession
  /\ build = NoBuild
  /\ sfPresenter = NewSfPresenter
  /\ wmPresenter = NewWmPresenter
  /\ overlap = NoOverlap
  /\ rootProperties \in {[phase |-> "drawn", value |-> << value >>, threw |-> FALSE,
                          result |-> << >>] : value \in RootValues}

\* the operation is applied to the entry
MakeProperties ==
  /\ rootProperties.phase = "drawn"
  /\ \E made \in {makeProperties(rootProperties.value[1])} :
       rootProperties' = [rootProperties EXCEPT !.phase = "made", !.threw = made.threw,
                                                !.result = made.result]
  /\ UNCHANGED <<session, calls, lastOp, diff, crossTool, build, sfPresenter, wmPresenter,
                 overlap>>

NextRootProperties == MakeProperties

SpecRootProperties == InitRootProperties /\ [][NextRootProperties]_vars

(* ---------------------------------------------------------------------- *)
(* Claims                                                                 *)
(* ---------------------------------------------------------------------- *)
\* call c is suspended at a parse attempt that is about to succeed
Accepting(c) ==
  /\ calls[c].pc = "parse"
  /\ calls[c].fileIdx <= Len(calls[c].legacy)
  /\ PARSERS[calls[c].varIdx] \in calls[c].legacy[calls[c].fileIdx].accepts

\* the candidates that attempt hands to the arbitration
Arbitrated(c) ==
  Candidates(PARSERS[calls[c].varIdx], calls[c].legacy[calls[c].fileIdx])

\* the errors and the (file, parser) pairs a step of call c has appended
AppendedErrors(c) ==
  SubSeq(calls'[c].legacyErrors, Len(calls[c].legacyErrors) + 1, Len(calls'[c].legacyErrors))

AppendedPairs(c) == SubSeq(calls'[c].pairs, Len(calls[c].pairs) + 1, Len(calls'[c].pairs))

ErrorsOfType(errors, traceType) ==
  LET Of(e) == e.traceType = traceType IN SelectSeq(errors, Of)

\* the Traces entry of a type a load has accepted a parser for is backed by the
\* registered parser, unless the unified transition trace replaces it
PublishesRegistered(c) ==
  calls[c].pc = "derive" /\ calls'[c].pc = "idle" =>
    \A i \in DOMAIN calls[c].pairs :
      LET type == calls[c].pairs[i].parser.type IN
      \/ type \in {"WM_TRANSITION", "SHELL_TRANSITION"} /\ "TRANSITION" \in DOMAIN traces'
      \/ type \in DOMAIN traces' /\ traces'[type].parser = parserFactory[type]

\* C1: when a newly parsed parser of a type that already has a registered
\* parser has strictly more entries than that one, the registry maps the type to
\* the new parser afterwards, the pair is returned, and exactly one OVERRIDE
\* error is appended, carrying the descriptors and the type of the old parser;
\* the trace the load then publishes for the type is backed by the new parser.
C1_LargerNewcomerReplaces ==
  [][\A c \in Calls :
       /\ Accepting(c) /\ calls'[c] # calls[c] =>
            \A k \in DOMAIN Arbitrated(c) :
              LET p == Arbitrated(c)[k] IN
              p.type \in DOMAIN parserFactory /\ p.len > parserFactory[p.type].len =>
                /\ parserFactory'[p.type] = p
                /\ \E i \in DOMAIN AppendedPairs(c) : AppendedPairs(c)[i].parser = p
                /\ ErrorsOfType(AppendedErrors(c), p.type) =
                     << ParserError("OVERRIDE", parserFactory[p.type].descriptors,
                                    parserFactory[p.type].type) >>
       /\ PublishesRegistered(c)]_vars

\* the smaller surface flinger file, then the larger: the larger is registered
\* and published, and the one OVERRIDE error of the load names the smaller
C1_Witness ==
  /\ lastOp.op = "loadTraceFiles"
  /\ lastOp.input = << SfSmall, SfBig >>
  /\ lastOp.errors = << ParserError("OVERRIDE", << SfSmall.name >>, "SURFACE_FLINGER") >>
  /\ parserFactory["SURFACE_FLINGER"] = NewParser("ParserSurfaceFlinger", SfBig)
  /\ traces["SURFACE_FLINGER"].parser = NewParser("ParserSurfaceFlinger", SfBig)

\* C2: when a newly parsed parser has fewer or equally many entries than the
\* registered parser of its type, it is neither registered nor returned, the
\* registered parser stays, and exactly one OVERRIDE error is appended, carrying
\* the descriptors and the type of the new parser.
C2_TieOrSmallerNewcomerRejected ==
  [][\A c \in Calls :
       Accepting(c) /\ calls'[c] # calls[c] =>
         \A k \in DOMAIN Arbitrated(c) :
           LET p == Arbitrated(c)[k] IN
           p.type \in DOMAIN parserFactory /\ p.len <= parserFactory[p.type].len =>
             /\ parserFactory'[p.type] = parserFactory[p.type]
             /\ \A i \in DOMAIN AppendedPairs(c) : AppendedPairs(c)[i].parser.type # p.type
             /\ ErrorsOfType(AppendedErrors(c), p.type) =
                  << ParserError("OVERRIDE", p.descriptors, p.type) >>]_vars

\* two surface flinger files with equally many entries: the first stays
\* registered and the OVERRIDE error names the second
C2_Witness ==
  /\ lastOp.op = "loadTraceFiles"
  /\ lastOp.input = << SfBig, SfTie >>
  /\ lastOp.errors = << ParserError("OVERRIDE", << SfTie.name >>, "SURFACE_FLINGER") >>
  /\ parserFactory["SURFACE_FLINGER"] = NewParser("ParserSurfaceFlinger", SfBig)
  /\ SfBig.len = SfTie.len

\* the positions in PARSERS of the variants that accept file f
AcceptingVariants(f) == {i \in DOMAIN PARSERS : PARSERS[i] \in f.accepts}

\* C3: the variants are tried on a file in the order of PARSERS, one after the
\* other from the first; no variant is tried on a file after one has accepted
\* it; the pairs kept for the file are those of the earliest accepting variant;
\* a rejection moves on to the next variant (or file) and the load never throws.
C3_FirstAcceptingVariantWins ==
  [][\A c \in Calls :
       /\ calls'[c].pc = "parse" /\ calls'[c].fileIdx <= Len(calls'[c].legacy) =>
            /\ \A i \in AcceptingVariants(calls'[c].legacy[calls'[c].fileIdx]) :
                 calls'[c].varIdx <= i
            /\ \/ calls'[c].varIdx = 1
               \/ /\ calls[c].pc = "parse"
                  /\ calls'[c].fileIdx = calls[c].fileIdx
                  /\ calls'[c].varIdx = calls[c].varIdx + 1
       /\ calls[c].pc = "parse" /\ calls[c].fileIdx <= Len(calls[c].legacy)
            /\ calls'[c] # calls[c] =>
            LET f == calls[c].legacy[calls[c].fileIdx] IN
            /\ \A i \in DOMAIN AppendedPairs(c) :
                 /\ AppendedPairs(c)[i].file = f
                 /\ AcceptingVariants(f) # {}
                 /\ AppendedPairs(c)[i].parser.variant =
                      PARSERS[CHOOSE v \in AcceptingVariants(f) :
                                \A w \in AcceptingVariants(f) : v <= w]
            /\ Accepting(c) => calls'[c].fileIdx = calls[c].fileIdx + 1
            /\ AppendedPairs(c) # << >> => Accepting(c)
       /\ lastOp'.op = "loadTraceFiles" => ~lastOp'.threw]_vars

\* a file two variants accept is kept with the parser of the earlier variant,
\* after the earlier variants have rejected it
C3_Witness ==
  \E c \in Calls :
    /\ calls[c].pc = "parse"
    /\ calls[c].fileIdx = 2
    /\ calls[c].legacy[1] = WmDual
    /\ Len(calls[c].pairs) = 1
    /\ calls[c].pairs[1].parser = NewParser("ParserWindowManager", WmDual)
    /\ Cardinality(AcceptingVariants(WmDual)) = 2

UnsupportedFormat(errors) ==
  LET Is(e) == e.type = "UNSUPPORTED_FORMAT" IN SelectSeq(errors, Is)

\* the files of a list that no variant accepts, as the errors due for them
DueUnsupportedFormat(traceFiles) ==
  LET Rejected(f) == f.accepts = {}
      rejected == SelectSeq(traceFiles, Rejected)
  IN [i \in DOMAIN rejected |->
        ParserError("UNSUPPORTED_FORMAT", <<rejected[i].name>>, Undefined)]

\* C4: createParsers appends one UNSUPPORTED_FORMAT error carrying the file's
\* descriptor when the last variant has rejected a file no variant accepts, and
\* none at any other step; either way it continues with the next file, and when
\* it returns its errors hold exactly one such error per rejected file.
C4_UnsupportedFormatPerRejectedFile ==
  [][\A c \in Calls :
       calls[c].pc = "parse" /\ calls'[c] # calls[c] =>
         IF calls[c].fileIdx <= Len(calls[c].legacy)
           THEN LET f == calls[c].legacy[calls[c].fileIdx] IN
                /\ calls'[c].pc = "parse"
                /\ calls'[c].legacy = calls[c].legacy
                /\ calls'[c].fileIdx \in {calls[c].fileIdx, calls[c].fileIdx + 1}
                /\ UnsupportedFormat(AppendedErrors(c)) =
                     IF f.accepts = {} /\ calls[c].varIdx = Len(PARSERS)
                       THEN << ParserError("UNSUPPORTED_FORMAT", <<f.name>>, Undefined) >>
                       ELSE << >>
                /\ f.accepts = {} /\ calls[c].varIdx = Len(PARSERS) =>
                     calls'[c].fileIdx = calls[c].fileIdx + 1
           ELSE /\ calls[c].fileIdx = Len(calls[c].legacy) + 1
                /\ UnsupportedFormat(calls[c].legacyErrors) =
                     DueUnsupportedFormat(calls[c].legacy)
                /\ UnsupportedFormat(calls'[c].errors) =
                     DueUnsupportedFormat(calls[c].legacy)]_vars

\* a rejected file followed by an accepted one: one error for the first, and
\* the second is parsed and published
C4_Witness ==
  /\ lastOp.op = "loadTraceFiles"
  /\ lastOp.input = << Junk, SfBig >>
  /\ lastOp.errors = << ParserError("UNSUPPORTED_FORMAT", << Junk.name >>, Undefined) >>
  /\ "SURFACE_FLINGER" \in DOMAIN traces
  /\ traces["SURFACE_FLINGER"].parser = NewParser("ParserSurfaceFlinger", SfBig)

\* the classifier finds neither a unified bundle nor a discrete file
NoInputFiles(traceFiles) ==
  filter(traceFiles).perfetto = << >> /\ filter(traceFiles).legacy = << >>

NoInputFilesError == ParserError("NO_INPUT_FILES", Undefined, Undefined)

\* C5 as stated: a load the classifier finds no input for returns exactly one
\* NO_INPUT_FILES error and the Traces collection is empty afterwards.
C5_Original ==
  lastOp.op = "loadTraceFiles" /\ NoInputFiles(lastOp.input) =>
    lastOp.errors = << NoInputFilesError >> /\ traces = EmptyMap

\* C5, amended: a load the classifier finds no input for returns exactly one
\* NO_INPUT_FILES error and leaves the Traces collection as it was, so the
\* collection is empty afterwards when it was empty before the call.
C5_NoInputFilesError ==
  [][lastOp'.op = "loadTraceFiles" /\ NoInputFiles(lastOp'.input) =>
       /\ lastOp'.errors = << NoInputFilesError >>
       /\ traces' = traces
       /\ traces = EmptyMap => traces' = EmptyMap]_vars

\* a load of one corrupted archive into an empty pipeline
C5_Witness ==
  /\ lastOp.op = "loadTraceFiles"
  /\ lastOp.input = << BadZip >>
  /\ lastOp.errors = << NoInputFilesError >>
  /\ traces = EmptyMap
  /\ parsers = << >>

\* C6: a loadTraceFiles call that returns NO_INPUT_FILES leaves the parser
\* list, the registry, the file map, the Traces collection and the cached
\* timestamp type as they were before the call.
C6_NoInputFilesIsNoOp ==
  [][lastOp'.op = "loadTraceFiles"
       /\ (\E i \in DOMAIN lastOp'.errors : lastOp'.errors[i].type = "NO_INPUT_FILES") =>
       /\ parsers' = parsers
       /\ parserFactory' = parserFactory
       /\ files' = files
       /\ traces' = traces
       /\ commonTimestampType' = commonTimestampType]_vars

\* NO_INPUT_FILES returned to a session that holds a built trace
C6_Witness ==
  /\ lastOp.op = "loadTraceFiles"
  /\ lastOp.errors = << NoInputFilesError >>
  /\ parsers # << >>
  /\ DOMAIN parserFactory # {}
  /\ DOMAIN files # {}
  /\ commonTimestampType # Undefined
  /\ \E type \in DOMAIN traces : traces[type].timestampType = commonTimestampType

\* createParsers(traceFiles) run to its return against the registry reg
RECURSIVE attempts(_)
attempts(m) ==
  IF m.fr.fileIdx > Len(m.fr.legacy) THEN m ELSE attempts(attemptSettled(m))

createParsers(traceFiles, reg) ==
  attempts(Machine(enterCreateParsers([IdleFrame EXCEPT !.legacy = traceFiles]),
                   reg, << >>, EmptyMap, EmptyMap))

Count(e, errors) == Cardinality({i \in DOMAIN errors : errors[i] = e})

\* the ParserErrors a loadTraceFiles(traceFiles) call produces: the
\* classifier's, then the factory's
ProducedErrors(traceFiles, reg) ==
  filter(traceFiles).errors \o createParsers(filter(traceFiles).legacy, reg).fr.legacyErrors

\* C7 as stated: every ParserError produced during a loadTraceFiles call (by
\* the classifier or by the factory) is in the list the call returns, also when
\* the call reports NO_INPUT_FILES.
C7_Original ==
  [][lastOp'.op = "loadTraceFiles" =>
       /\ ~lastOp'.threw
       /\ \A i \in DOMAIN ProducedErrors(lastOp'.input, parserFactory) :
            LET e == ProducedErrors(lastOp'.input, parserFactory)[i] IN
            Count(e, lastOp'.errors) >= Count(e, ProducedErrors(lastOp'.input, parserFactory))]_vars

\* every parser of this.parsers declares timestamps of the given type
Universal(prs, timestampType) == \A k \in DOMAIN prs : timestampType \in prs[k].ts

InitialisedWith(trs, timestampType) ==
  \A type \in DOMAIN trs : trs[type].timestampType = timestampType

\* C8 as stated: every buildTraces call uses REAL when all parsers declare REAL
\* timestamps, else ELAPSED when all declare ELAPSED ones, else throws,
\* whatever calls preceded it.
C8_Original ==
  [][lastOp'.op = "buildTraces" =>
       IF Universal(parsers, "REAL")
         THEN ~lastOp'.threw /\ InitialisedWith(traces', "REAL")
       ELSE IF Universal(parsers, "ELAPSED")
         THEN ~lastOp'.threw /\ InitialisedWith(traces', "ELAPSED")
       ELSE lastOp'.threw]_vars

\* C9 as stated: when no TimestampType is declared by all parsers of
\* this.parsers, buildTraces throws, no trace has been initialised, the frame
\* mapper has not been started and no timestamp type is cached.
C9_Original ==
  [][lastOp'.op = "buildTraces"
       /\ ~Universal(parsers, "REAL") /\ ~Universal(parsers, "ELAPSED") =>
       /\ lastOp'.threw
       /\ InitialisedWith(traces', Undefined)
       /\ lastOp'.frameMapper = "not started"
       /\ commonTimestampType' = Undefined]_vars

\* C10 as stated: whenever buildTraces has returned normally, all traces of the
\* collection are initialised with one TimestampType, and the parser backing
\* each of them declares timestamps of that type.
C10_Original ==
  lastOp.op = "buildTraces" /\ ~lastOp.threw =>
    \E timestampType \in TimestampTypes :
      \A type \in DOMAIN traces :
        /\ traces[type].timestampType = timestampType
        /\ timestampType \in traces[type].parser.ts

\* C11: the Traces collection never holds a TRANSITION trace together with a
\* WM_TRANSITION or a SHELL_TRANSITION trace; in particular the collection a
\* load publishes with the unified transition trace holds neither raw type.
C11_NoRawTransitionBesideUnified ==
  "TRANSITION" \in DOMAIN traces =>
    "WM_TRANSITION" \notin DOMAIN traces /\ "SHELL_TRANSITION" \notin DOMAIN traces

\* a load of both raw transition files has published the unified trace while
\* this.parsers holds the two raw parsers
C11_Witness ==
  /\ lastOp.op = "loadTraceFiles"
  /\ lastOp.input = << TrWm, TrShell >>
  /\ HasType(parsers, "WM_TRANSITION") /\ HasType(parsers, "SHELL_TRANSITION")
  /\ DOMAIN traces = {"TRANSITION"}

\* C12 as stated: after removeTrace(t) neither the Traces collection, nor
\* this.parsers, nor the factory's registry, nor getLoadedFiles() holds anything
\* of t.type, and what they hold of every other type is unchanged.
C12_Original ==
  [][lastOp'.op = "removeTrace" =>
       LET Other(parser) == parser.type # lastOp'.type IN
       /\ lastOp'.type \notin DOMAIN traces'
       /\ ~HasType(parsers', lastOp'.type)
       /\ lastOp'.type \notin DOMAIN parserFactory'
       /\ lastOp'.type \notin DOMAIN files'
       /\ traces' = MapDelete(traces, lastOp'.type)
       /\ parsers' = SelectSeq(parsers, Other)
       /\ parserFactory' = MapDelete(parserFactory, lastOp'.type)
       /\ files' = MapDelete(files, lastOp'.type)]_vars

\* C13: after clear(), called in any reachable state, the registry, the parser
\* list, the file map, the Traces collection and the cached timestamp type are
\* those of a newly constructed pipeline, so that the calls that follow start
\* from the state Init gives and return what they return on a new pipeline.
C13_ClearGivesInitialState ==
  lastOp.op = "clear" =>
    \E fresh \in {[parserFactory |-> EmptyMap, parsers |-> << >>, files |-> EmptyMap,
                   traces |-> EmptyMap, commonTimestampType |-> Undefined]} :
      /\ parserFactory = fresh.parserFactory
      /\ parsers = fresh.parsers
      /\ files = fresh.files
      /\ traces = fresh.traces
      /\ commonTimestampType = fresh.commonTimestampType
      /\ \A c \in Calls : calls[c] = IdleFrame

\* clear() has returned and the session is empty
C13_Witness ==
  /\ lastOp.op = "clear"
  /\ parsers = << >> /\ DOMAIN parserFactory = {} /\ DOMAIN files = {} /\ DOMAIN traces = {}
  /\ commonTimestampType = Undefined

\* C14 as stated: when clear() has been called while a loadTraceFiles call was
\* suspended at an await, the parser list, the file map and the Traces
\* collection are empty once that call has returned.
C14_Original ==
  [][\A c \in Calls :
       lastOp.op = "clear" /\ Suspended(c) /\ calls'[c].pc = "idle" =>
         parsers' = << >> /\ files' = EmptyMap /\ traces' = EmptyMap]_vars

\* a list of parsers holds at most one parser of each TraceType
OnePerType(prs) ==
  \A i, j \in DOMAIN prs : prs[i].type = prs[j].type => i = j

\* C15 as stated: the parsers of the pairs createParsers returns, and the
\* parsers of this.parsers, hold no parser that lost the arbitration: after
\* every load each of the two lists holds at most one parser per TraceType.
C15_Original ==
  [][lastOp'.op = "loadTraceFiles" /\ ~NoInputFiles(lastOp'.input) =>
       \E created \in {createParsers(filter(lastOp'.input).legacy, parserFactory)} :
         /\ OnePerType([i \in DOMAIN created.fr.pairs |-> created.fr.pairs[i].parser])
         /\ OnePerType(parsers')]_vars

\* the session of a newly constructed pipeline
Fresh ==
  /\ parserFactory = EmptyMap /\ parsers = << >> /\ files = EmptyMap
  /\ traces = EmptyMap /\ commonTimestampType = Undefined

\* discrete files each of which exactly one parser variant accepts
SingleVariantFiles(traceFiles) ==
  /\ traceFiles # << >>
  /\ \A i \in DOMAIN traceFiles :
       traceFiles[i].kind = "legacy" /\ Cardinality(traceFiles[i].accepts) = 1

\* the TraceType the one accepting variant of such a file reports
TypeOfFile(f) == VariantTraceType(CHOOSE variant \in f.accepts : TRUE)

OverrideErrors(errors) == {i \in DOMAIN errors : errors[i].type = "OVERRIDE"}

DistinctTypeFiles(traceFiles) ==
  /\ SingleVariantFiles(traceFiles)
  /\ \A i \in DOMAIN traceFiles : traceFiles[i].accepts # {"ParserViewCapture"}
  /\ \A i, j \in DOMAIN traceFiles :
       TypeOfFile(traceFiles[i]) = TypeOfFile(traceFiles[j]) => i = j

\* the types of the collection a load of such files publishes
PublishedTypes(traceFiles) ==
  LET types == {TypeOfFile(traceFiles[i]) : i \in DOMAIN traceFiles} IN
  IF {"WM_TRANSITION", "SHELL_TRANSITION"} \subseteq types
    THEN (types \ {"WM_TRANSITION", "SHELL_TRANSITION"}) \cup {"TRANSITION"}
    ELSE types

Winner(prs, type) ==
  LET of == {i \in DOMAIN prs : prs[i].type = type}
      most == {i \in of : \A j \in of : prs[j].len <= prs[i].len}
  IN prs[CHOOSE i \in most : \A j \in most : i <= j]

\* C17 as stated: whenever a load adds a parser of a TraceType that another
\* parser of the session already claims (from a discrete file or from the
\* unified bundle, of the same call or of an earlier one), the load returns an
\* OVERRIDE error for that type and the trace kept for the type is backed by
\* the parser with more entries, the earlier one on a tie.
C17_Original ==
  [][lastOp'.op = "loadTraceFiles" =>
       \A k \in DOMAIN parsers' :
         k > Len(parsers) /\ (\E i \in 1..(k - 1) : parsers'[i].type = parsers'[k].type) =>
           /\ \E e \in OverrideErrors(lastOp'.errors) :
                lastOp'.errors[e].traceType = parsers'[k].type
           /\ parsers'[k].type \in DOMAIN traces' =>
                traces'[parsers'[k].type].parser = Winner(parsers', parsers'[k].type)]_vars

\* C18 as stated: a derived parser whose TraceType already has an accepted
\* parser is arbitrated by entry count as in shouldUseParser: with more entries
\* it replaces the accepted parser and an OVERRIDE error names that one;
\* otherwise it is rejected and an OVERRIDE error names the derived parser.
C18_Original ==
  [][lastOp'.op = "loadTraceFiles" /\ ~NoInputFiles(lastOp'.input) =>
       \A d \in DOMAIN tracesCreateParsers(parsers') :
         LET derived == tracesCreateParsers(parsers')[d] IN
         HasType(parsers', derived.type) =>
           LET accepted == LastOfType(parsers', derived.type)
               loser == IF derived.len > accepted.len THEN accepted ELSE derived
               winner == IF derived.len > accepted.len THEN derived ELSE accepted
           IN /\ traces'[derived.type].parser = winner
              /\ \E e \in OverrideErrors(lastOp'.errors) :
                   /\ lastOp'.errors[e].trace = loser.descriptors
                   /\ lastOp'.errors[e].traceType = loser.type]_vars

\* the leaves that isChildPropertyModified passes over: those with a
\* deny-listed name and those whose source is CALCULATED
ExcludedPaths ==
  {<<LayerLeaves[i].name>> : i \in
     {j \in DOMAIN LayerLeaves :
        \/ LayerLeaves[j].name \in DENYLIST_PROPERTY_NAMES
        \/ LayerLeaves[j].source = "CALCULATED"}}
    \cup {<<"bounds", BoundsLeaves[i].name>> : i \in
            {j \in DOMAIN BoundsLeaves :
               \/ BoundsLeaves[j].name \in DENYLIST_PROPERTY_NAMES
               \/ BoundsLeaves[j].source = "CALCULATED"}}

\* C19: diffing a hierarchy tree against one with the same values marks no
\* node as modified, and neither does diffing it against one that differs
\* from it only in deny-listed or CALCULATED properties, at any depth of the
\* property tree
C19_ExcludedDifferencesNotModified ==
  diff.phase = "diffed" /\ (\A e \in diff.edits : e.path \in ExcludedPaths)
    => diff.modified = {}

\* the trees differ in a CALCULATED leaf of one layer and in a deny-listed
\* leaf below `bounds` of another, and no node is marked
C19_Witness ==
  /\ diff.phase = "diffed"
  /\ \E e \in diff.edits : e.node = "B" /\ e.path = <<"cornerRadius">> /\ e.kind = "set"
  /\ \E e \in diff.edits : e.node = "A" /\ e.path = <<"bounds", "dpiX">> /\ e.kind = "set"
  /\ diff.modified = {}

\* the layers that hold the layer id, and the layer itself
AncestorsOrSelf(id) ==
  {n.id : n \in {x \in nodesOf(Tree({})) : \E y \in nodesOf(x) : y.id = id}}

\* C20: when the trees differ in the rendered value of one leaf only (a leaf
\* the diff does not pass over), that leaf is marked as modified, so is every
\* layer from the one that owns the leaf up to, but not including, the root,
\* and no other layer is
C20_Original ==
  diff.phase = "diffed" =>
    \A e \in diff.edits :
      diff.edits = {e} /\ e.kind = "set" /\ e.path \notin ExcludedPaths =>
        /\ <<e.node, e.path>> \in diff.modifiedProperties
        /\ diff.modified = AncestorsOrSelf(e.node) \ {"root"}

\* C21: a root node is never flagged as modified: with the old tree present,
\* isHierarchyTreeModified is false for the root of the new tree whatever
\* the properties of the two trees are
C21_RootNeverModified ==
  diff.phase = "diffed" => "root" \notin diff.modified

\* the root's own property z renders differently in the two trees, the
\* property is marked and the root is not
C21_Witness ==
  /\ diff.phase = "diffed"
  /\ \E e \in diff.edits : e.node = "root" /\ e.path = <<"z">> /\ e.kind = "set"
  /\ <<"root", <<"z">> >> \in diff.modifiedProperties
  /\ "root" \notin diff.modified

\* C22: absent versus present is decided first: both callbacks return false
\* when both trees are absent and true when exactly one is, whether the
\* present one is a root or not and whatever its properties are
C22_AbsentDecidedFirst ==
  diff.phase = "compared" =>
    /\ nodeOf(diff.newTree) = << >> /\ nodeOf(diff.oldTree) = << >>
         => ~diff.result.hierarchy
    /\ (nodeOf(diff.newTree) = << >>) # (nodeOf(diff.oldTree) = << >>)
         => diff.result.hierarchy
    /\ leafOf(diff.newTree) = << >> /\ leafOf(diff.oldTree) = << >>
         => ~diff.result.property
    /\ (leafOf(diff.newTree) = << >>) # (leafOf(diff.oldTree) = << >>)
         => diff.result.property

\* the new node is a root, the old one is absent, and both callbacks say
\* modified
C22_Witness ==
  /\ diff.phase = "compared"
  /\ diff.newTree.present /\ diff.newTree.isRoot /\ ~diff.oldTree.present
  /\ diff.result.hierarchy /\ diff.result.property

\* both callbacks were called with two nodes that are present and no root
BothCompared ==
  /\ diff.phase = "compared"
  /\ diff.newTree.present /\ ~diff.newTree.isRoot
  /\ diff.oldTree.present /\ ~diff.oldTree.isRoot

\* the leaf at path is in the properties of the argument
HasLeaf(arg, path) ==
  ~\E e \in arg.edits : e.path = path /\ e.kind = "drop"

\* the decoded value of the leaf at path
RawOf(arg, path) ==
  IF \E e \in arg.edits : e.path = path /\ e.kind = "set"
    THEN (CHOOSE e \in arg.edits : e.path = path).raw
    ELSE 0

\* the leaf at path is rendered differently in the two arguments
RendersDifferently(path) ==
  formattedValue([raw |-> RawOf(diff.newTree, path)])
    # formattedValue([raw |-> RawOf(diff.oldTree, path)])

\* C23: leaves are compared by rendered value only: when every leaf of the
\* new node that the diff does not pass over has a counterpart in the old
\* node, the node is modified if and only if one of these leaves is rendered
\* differently in the two, and a leaf given to isPropertyNodeModified with its
\* counterpart is modified if and only if it is rendered differently
C23_LeavesComparedByRenderedValue ==
  BothCompared =>
    /\ (\A path \in LeafPaths \ ExcludedPaths :
          HasLeaf(diff.newTree, path) => HasLeaf(diff.oldTree, path))
         => (diff.result.hierarchy
               <=> \E path \in LeafPaths \ ExcludedPaths :
                     HasLeaf(diff.newTree, path) /\ RendersDifferently(path))
    /\ HasLeaf(diff.newTree, <<"z">>) /\ HasLeaf(diff.oldTree, <<"z">>)
         => (diff.result.property <=> RendersDifferently(<<"z">>))

\* z has the decoded value 2 in the new node and 1 in the old one, both are
\* rendered alike, and neither callback says modified
C23_Witness ==
  /\ BothCompared
  /\ RawOf(diff.newTree, <<"z">>) = 2 /\ RawOf(diff.oldTree, <<"z">>) = 1
  /\ ~diff.result.hierarchy /\ ~diff.result.property

\* the orders in which the children with the given names can be listed
Orders(names) ==
  {o \in [1 .. Len(names) -> {names[i] : i \in DOMAIN names}] :
     \A i, j \in DOMAIN o : o[i] = o[j] => i = j}

TopOrders == Orders(<<"name", "z", "cornerRadius", "bounds">>)

BoundsOrders == Orders(<<"left", "dpiX", "area">>)

\* the children of a property in the given order of their names
RECURSIVE inOrder(_, _, _)
inOrder(children, order, i) ==
  IF i > Len(order) THEN << >>
  ELSE LET Named(child) == child.name = order[i]
       IN SelectSeq(children, Named) \o inOrder(children, order, i + 1)

\* properties with the top-level ones listed in the order top and those of
\* `bounds` in the order nested
Reordered(properties, top, nested) ==
  LET listed == inOrder(properties.children, top, 1)
  IN [properties EXCEPT !.children =
        [i \in DOMAIN listed |->
           IF listed[i].name = "bounds"
             THEN [listed[i] EXCEPT !.children = inOrder(listed[i].children, nested, 1)]
             ELSE listed[i]]]

\* an order read from its end
Reverse(order) == [i \in DOMAIN order |-> order[Len(order) + 1 - i]]

\* C24: matching does not depend on position: isChildPropertyModified gives
\* the same result for every order of the children of the new properties and
\* for every order of the children of the old ones, at the top level and
\* below `bounds` (each order of one side is taken with the other side as it
\* was, and with the other side in the opposite order); and a leaf of the
\* new node that the diff does not pass over and that the old node lacks
\* makes the result true
C24_MatchingByName ==
  BothCompared =>
    /\ \A new \in {Properties("A", diff.newTree.edits)} :
       \A old \in {Properties("A", diff.oldTree.edits)} :
       \A top \in TopOrders : \A nested \in BoundsOrders :
       \A reordered \in {Reordered(new, top, nested)} :
         /\ isChildPropertyModified(reordered, old) = diff.result.hierarchy
         /\ isChildPropertyModified(new, Reordered(old, top, nested))
              = diff.result.hierarchy
         /\ isChildPropertyModified(reordered, Reordered(old, Reverse(top), Reverse(nested)))
              = diff.result.hierarchy
    /\ (\E path \in LeafPaths \ ExcludedPaths :
          HasLeaf(diff.newTree, path) /\ ~HasLeaf(diff.oldTree, path))
         => diff.result.hierarchy

\* the old node lacks the leaf left of `bounds`, which the new node has, and
\* the new node is modified
C24_Witness ==
  /\ BothCompared
  /\ HasLeaf(diff.newTree, <<"bounds", "left">>)
  /\ ~HasLeaf(diff.oldTree, <<"bounds", "left">>)
  /\ \E e \in diff.newTree.edits : e.path = <<"z">> /\ e.kind = "drop"
  /\ diff.result.hierarchy

\* s is the beginning of t
IsPrefix(s, t) == Len(s) <= Len(t) /\ SubSeq(t, 1, Len(s)) = s

\* what t holds after its beginning s
Added(s, t) == SubSeq(t, Len(s) + 1, Len(t))

\* C25: files are handled strictly one after the other: a createParsers call
\* in flight waits for one parse attempt, that of variant varIdx on file
\* fileIdx; when the attempt settles the call either tries the next variant on
\* the same file and adds nothing, or has finished the file (it has added
\* pairs or errors, all of them about this file, behind those of the files
\* before) and goes on to the first variant of the next file
C25_FilesHandledInOrder ==
  [][\A c \in Calls :
       calls[c].pc = "parse" /\ calls'[c].pc = "parse" =>
         LET f == calls[c].legacy[calls[c].fileIdx]
             pairs == Added(calls[c].pairs, calls'[c].pairs)
             errors == Added(calls[c].legacyErrors, calls'[c].legacyErrors)
         IN /\ IsPrefix(calls[c].pairs, calls'[c].pairs)
            /\ IsPrefix(calls[c].legacyErrors, calls'[c].legacyErrors)
            /\ \A i \in DOMAIN pairs : pairs[i].file = f
            /\ \A i \in DOMAIN errors :
                 \/ errors[i].type = "UNSUPPORTED_FORMAT" /\ errors[i].trace = <<f.name>>
                 \/ /\ errors[i].type = "OVERRIDE"
                    /\ \E v \in f.accepts : \E j \in DOMAIN Candidates(v, f) :
                         Candidates(v, f)[j].type = errors[i].traceType
            /\ \/ /\ calls'[c].fileIdx = calls[c].fileIdx
                  /\ calls'[c].varIdx = calls[c].varIdx + 1
                  /\ pairs = << >> /\ errors = << >>
               \/ /\ calls'[c].fileIdx = calls[c].fileIdx + 1
                  /\ calls'[c].varIdx = 1
                  /\ pairs # << >> \/ errors # << >>]_vars

\* the call waits for an attempt of a later variant on its second file,
\* holding the pair of the first file
C25_Witness ==
  \E c \in Calls :
    /\ calls[c].pc = "parse" /\ calls[c].fileIdx = 2 /\ calls[c].varIdx > 1
    /\ Len(calls[c].legacy) = 2
    /\ Len(calls[c].pairs) = 1 /\ calls[c].pairs[1].file = calls[c].legacy[1]
    /\ calls[c].legacy[1] # calls[c].legacy[2]

\* c is a plus b, worked out on the seconds and the nanoseconds apart
IsSum(c, a, b) ==
  /\ 0 <= c.ns /\ c.ns < Base
  /\ \/ c.s = a.s + b.s /\ c.ns = a.ns + b.ns
     \/ c.s = a.s + b.s + 1 /\ c.ns = a.ns + b.ns - Base

ParsedOf(f) ==
  LET accepting == {v \in DOMAIN PARSERS : PARSERS[v] \in f.accepts} IN
  IF f.kind # "legacy" \/ accepting = {} THEN << >>
  ELSE Candidates(PARSERS[CHOOSE v \in accepting : \A w \in accepting : v <= w], f)

\* the parsers made of a list of files, in the order of the files
RECURSIVE ParsedIn(_)
ParsedIn(traceFiles) ==
  IF traceFiles = << >> THEN << >>
  ELSE ParsedOf(Head(traceFiles)) \o ParsedIn(Tail(traceFiles))

IsViewCaptureType(type) == \E i \in DOMAIN ViewCapture.sub : ViewCapture.sub[i].type = type

\* so far the session has parsed the type from discrete files only and has
\* not removed its trace: the registered parser of the type, if any, is among
\* this.parsers, this.parsers holds no parser of the type from a bundle, and
\* the unified TRANSITION entry is there when both raw transition traces are
DiscreteOnly(type) ==
  /\ type \in DOMAIN parserFactory => \E i \in DOMAIN parsers : parsers[i] = parserFactory[type]
  /\ \A i \in DOMAIN parsers : parsers[i].type = type => parsers[i].variant # "Perfetto"
  /\ type \in {"WM_TRANSITION", "SHELL_TRANSITION"}
       /\ HasType(parsers, "WM_TRANSITION") /\ HasType(parsers, "SHELL_TRANSITION")
       => "TRANSITION" \in DOMAIN traces

\* the parser registered for the type, if any, followed by those of the type
\* that a load of traceFiles parses
Contenders(type, traceFiles) ==
  LET OfType(parser) == parser.type = type
  IN (IF type \in DOMAIN parserFactory THEN << parserFactory[type] >> ELSE << >>)
       \o SelectSeq(ParsedIn(traceFiles), OfType)

\* C27: most entries win over a session: a load of discrete files into a
\* session that has so far parsed a type X (no view capture) from discrete
\* files only, without removeTrace, leaves registered for X the parser with
\* the most entries among the one registered before and those of type X the
\* load parses, the earliest of them on a tie; the X entry of the Traces
\* collection is backed by it, and the entry is there unless the unified
\* TRANSITION entry stands for it
C27_MostEntriesWin ==
  [][lastOp'.op = "loadTraceFiles"
       /\ (\A i \in DOMAIN lastOp'.input : lastOp'.input[i].kind # "perfetto") =>
       \A type \in DOMAIN parserFactory \cup
                   {ParsedIn(lastOp'.input)[i].type : i \in DOMAIN ParsedIn(lastOp'.input)} :
         ~IsViewCaptureType(type) /\ DiscreteOnly(type) =>
           /\ type \in DOMAIN parserFactory'
           /\ parserFactory'[type] = Winner(Contenders(type, lastOp'.input), type)
           /\ type \in DOMAIN traces' => traces'[type].parser = parserFactory'[type]
           /\ type \notin DOMAIN traces' =>
                type \in {"WM_TRANSITION", "SHELL_TRANSITION"} /\ "TRANSITION" \in DOMAIN traces']_vars

\* two loads have parsed the small and then the big SurfaceFlinger file: the
\* big one's parser is registered and backs the trace
C27_Witness ==
  /\ lastOp.op = "loadTraceFiles" /\ lastOp.input = << SfBig >>
  /\ Len(parsers) = 2 /\ parsers[1] = NewParser("ParserSurfaceFlinger", SfSmall)
  /\ parserFactory["SURFACE_FLINGER"] = NewParser("ParserSurfaceFlinger", SfBig)
  /\ traces["SURFACE_FLINGER"].parser = NewParser("ParserSurfaceFlinger", SfBig)

\* the parsers a load of traceFiles makes: those of the unified bundle, then
\* those of the discrete files in the order of the files
LoadParsed(traceFiles) ==
  (IF filter(traceFiles).perfetto = << >> THEN << >>
   ELSE perfettoCreateParsers(filter(traceFiles).perfetto[1]))
    \o ParsedIn(filter(traceFiles).legacy)

\* the parser of the type that the session holds, if any, followed by those
\* of the type that a load of traceFiles makes
SessionContenders(type, traceFiles) ==
  LET OfType(parser) == parser.type = type
  IN (IF type \in DOMAIN parserFactory THEN << parserFactory[type] >>
      ELSE IF HasType(parsers, type) THEN << LastOfType(parsers, type) >>
      ELSE << >>)
       \o SelectSeq(LoadParsed(traceFiles), OfType)

\* the descriptors of all of prs but the parser with the most entries, the
\* earliest such on a tie
Losers(prs) ==
  LET most == {i \in DOMAIN prs : \A j \in DOMAIN prs : prs[j].len <= prs[i].len}
      winner == CHOOSE i \in most : \A j \in most : i <= j
  IN [i \in 1 .. (Len(prs) - 1) |->
        IF i < winner THEN prs[i].descriptors ELSE prs[i + 1].descriptors]

\* C28: one OVERRIDE error per loser: a load that brings the parsers of a
\* type X (no view capture) that the session has parsed to n returns one
\* OVERRIDE error of type X for each parser of type X it has made but for the
\* first parser of the type in the session; each parser that has lost is
\* named by one of them and the winner by none
C28_Original ==
  [][lastOp'.op = "loadTraceFiles" =>
       \A type \in {LoadParsed(lastOp'.input)[i].type : i \in DOMAIN LoadParsed(lastOp'.input)} :
         ~IsViewCaptureType(type) =>
           LET contenders == SessionContenders(type, lastOp'.input)
               errors == lastOp'.errors
               overrides == {i \in OverrideErrors(errors) : errors[i].traceType = type}
               losers == Losers(contenders)
           IN /\ Cardinality(overrides) = Len(contenders) - 1
              /\ \A d \in {losers[i] : i \in DOMAIN losers} :
                   Cardinality({i \in overrides : errors[i].trace = d})
                     = Cardinality({i \in DOMAIN losers : losers[i] = d})]_vars

\* C29: reload after removal: a loadTraceFiles call with a single file that
\* parses as type X, following removeTrace of the trace of type X, returns
\* no OVERRIDE error and gives the Traces collection an entry for X that is
\* backed by the parser of the new file, whatever the entry counts of the
\* removed parser and of the new one are
C29_Original ==
  [][/\ lastOp.op = "removeTrace"
     /\ lastOp'.op = "loadTraceFiles"
     /\ Len(lastOp'.input) = 1
     /\ Len(ParsedOf(lastOp'.input[1])) = 1
     /\ ParsedOf(lastOp'.input[1])[1].type = lastOp.type
     => /\ OverrideErrors(lastOp'.errors) = {}
        /\ lastOp.type \in DOMAIN traces'
        /\ traces'[lastOp.type].parser = ParsedOf(lastOp'.input[1])[1]]_vars

\* C30: the chosen TimestampType is cached. A buildTraces call made while a
\* type is cached returns normally, initialises every trace with the cached
\* type and leaves it cached, whatever the parsers declare; no operation other
\* than clear() changes a cached type; clear() empties the cache, and a
\* buildTraces call made with an empty cache selects REAL if every parser
\* declares it, else ELAPSED if every parser declares it, else throws.
C30_TimestampTypeCached ==
  [][/\ (commonTimestampType # Undefined /\ lastOp'.op = "buildTraces"
          => /\ ~lastOp'.threw
             /\ commonTimestampType' = commonTimestampType
             /\ InitialisedWith(traces', commonTimestampType))
     /\ (commonTimestampType # Undefined /\ lastOp'.op # "clear"
          => commonTimestampType' = commonTimestampType)
     /\ (lastOp'.op = "clear" => commonTimestampType' = Undefined)
     /\ (commonTimestampType = Undefined /\ lastOp'.op = "buildTraces"
          => IF Universal(parsers, "REAL")
               THEN commonTimestampType' = "REAL"
             ELSE IF Universal(parsers, "ELAPSED")
               THEN commonTimestampType' = "ELAPSED"
             ELSE lastOp'.threw /\ commonTimestampType' = Undefined)]_vars

\* A buildTraces call has returned normally with REAL cached although a parser
\* loaded since the type was selected does not declare REAL, and a trace is
\* initialised with it.
C30_Witness ==
  /\ lastOp.op = "buildTraces"
  /\ ~lastOp.threw
  /\ commonTimestampType = "REAL"
  /\ ~Universal(parsers, "REAL")
  /\ Universal(parsers, "ELAPSED")
  /\ DOMAIN traces # {}
  /\ InitialisedWith(traces, "REAL")

\* C31: in every buildTraces call the common timestamp type is resolved
\* first, then every trace of the collection is initialised with it, and only
\* then is the frame mapping computed, once per call and over the whole
\* current collection; buildTraces does not return before the mapping has
\* been computed, and a call that throws starts no mapping.
C31_BuildTracesOrdering ==
  [][/\ (build'.pc = "computeMapping" /\ build.pc = "idle"
          => /\ commonTimestampType' # Undefined
             /\ commonTimestampType' = getCommonTimestampType(commonTimestampType, parsers)
             /\ DOMAIN traces' = DOMAIN traces
             /\ InitialisedWith(traces', commonTimestampType')
             /\ build'.frameMappers = << [traces |-> traces', computed |-> FALSE] >>)
     /\ (build.pc = "computeMapping" => lastOp.op # "buildTraces")
     /\ (lastOp'.op = "buildTraces" /\ ~lastOp'.threw
          => /\ build.pc = "computeMapping" /\ build'.pc = "idle"
             /\ build.frameMappers = << [traces |-> traces', computed |-> FALSE] >>
             /\ lastOp'.frameMapper = "computed"
             /\ InitialisedWith(traces', commonTimestampType')
             /\ UNCHANGED session)
     /\ (lastOp'.op = "buildTraces" /\ lastOp'.threw
          => /\ build.pc = "idle" /\ build'.frameMappers = << >>
             /\ lastOp'.frameMapper = "not started"
             /\ UNCHANGED session)]_vars

\* buildTraces has returned after the mapping over a collection of two
\* traces initialised with ELAPSED was computed
C31_Witness ==
  /\ lastOp.op = "buildTraces"
  /\ ~lastOp.threw
  /\ lastOp.frameMapper = "computed"
  /\ build.pc = "idle"
  /\ Cardinality(DOMAIN traces) = 2
  /\ InitialisedWith(traces, "ELAPSED")

\* the frame of the same call made without a progress listener
Silent(fr) == [fr EXCEPT !.progressListener = FALSE, !.progress = << >>]

\* the fraction a is less than the fraction b
Less(a, b) == a.num * b.den < b.num * a.den

\* C32: during one createParsers call over n files with a listener, when the
\* call is suspended at an attempt on file k the listener has been called
\* exactly k times (n times once the files are done), the i-th time with
\* ((i - 1) / n) * 100, so the values start at 0, increase strictly and stay
\* below 100; and every step of the call changes the pipeline and the call's
\* locals, pairs and errors among them, as the same step of a call without
\* listener does.
C32_ProgressMonotonicObservational ==
  [][\A c \in Calls :
       /\ calls'[c].pc = "parse" /\ calls'[c].progressListener =>
            \E n \in {Len(calls'[c].legacy)} : \E reported \in {calls'[c].progress} :
              /\ Len(reported) = IF calls'[c].fileIdx <= n THEN calls'[c].fileIdx ELSE n
              /\ \A i \in DOMAIN reported : reported[i] = Percentage(i - 1, n)
              /\ \A i \in DOMAIN reported : reported[i].num < 100 * reported[i].den
              /\ n > 0 => reported[1].num = 0
              /\ \A i, j \in DOMAIN reported : i < j => Less(reported[i], reported[j])
       /\ Suspended(c) /\ calls[c].progressListener /\ calls'[c] # calls[c] =>
            \E m \in {step(Machine(calls[c], parserFactory, parsers, files, traces))} :
            \E silent \in {step(Machine(Silent(calls[c]), parserFactory, parsers, files,
                                         traces))} :
              /\ calls'[c] = m.fr /\ parserFactory' = m.reg /\ parsers' = m.parsers
              /\ files' = m.files /\ traces' = m.traces
              /\ silent = [m EXCEPT !.fr = Silent(m.fr)]]_vars

\* a call with a listener is past its second file: the listener has been
\* handed 0 and 50
C32_Witness ==
  \E c \in Calls :
    /\ calls[c].pc = "parse"
    /\ calls[c].progressListener
    /\ Len(calls[c].legacy) = 2
    /\ calls[c].fileIdx = 3
    /\ calls[c].progress = << Percentage(0, 2), Percentage(1, 2) >>
    /\ calls[c].pairs # << >>

\* the window parsers of a list that the registry reg lets in: those of a type
\* it does not hold or holds with fewer entries
LetIn(ws, reg) ==
  LET Accepted(w) == w.type \notin DOMAIN reg \/ w.len > reg[w.type].len
  IN SelectSeq(ws, Accepted)

\* C33: when the view-capture variant accepts a file, each of its window
\* parsers is arbitrated by itself against the registry: the accepted ones, in
\* their order, are registered and give one (file, parser) pair each with that
\* file; each one that meets a registered parser of its type gives one
\* OVERRIDE error; one that is not accepted leaves the registry entry; the
\* step appends no UNSUPPORTED_FORMAT error, and no returned
\* UNSUPPORTED_FORMAT error names a file the variant accepts, whatever the
\* number of its window parsers and of those accepted.
C33_ViewCaptureFanOut ==
  [][/\ \A c \in Calls :
          Accepting(c) /\ PARSERS[calls[c].varIdx] = "ParserViewCapture"
            /\ calls'[c] # calls[c] =>
            \E f \in {calls[c].legacy[calls[c].fileIdx]} :
            \E ws \in {WindowParsers(calls[c].legacy[calls[c].fileIdx])} :
              /\ Len(ws) = Len(f.sub)
              /\ AppendedPairs(c) =
                   [i \in DOMAIN LetIn(ws, parserFactory) |->
                      [file |-> f, parser |-> LetIn(ws, parserFactory)[i]]]
              /\ \A k \in DOMAIN ws :
                   /\ parserFactory'[ws[k].type] =
                        IF \E i \in DOMAIN LetIn(ws, parserFactory) :
                             LetIn(ws, parserFactory)[i] = ws[k]
                          THEN ws[k] ELSE parserFactory[ws[k].type]
                   /\ Len(ErrorsOfType(AppendedErrors(c), ws[k].type)) =
                        IF ws[k].type \in DOMAIN parserFactory THEN 1 ELSE 0
              /\ \A i \in DOMAIN AppendedErrors(c) : AppendedErrors(c)[i].type = "OVERRIDE"
              /\ calls'[c].fileIdx = calls[c].fileIdx + 1
     /\ lastOp'.op = "loadTraceFiles" =>
          \A i \in DOMAIN lastOp'.errors : \A j \in DOMAIN lastOp'.input :
            lastOp'.errors[i].type = "UNSUPPORTED_FORMAT"
              /\ lastOp'.errors[i].trace = << lastOp'.input[j].name >>
              => "ParserViewCapture" \notin lastOp'.input[j].accepts]_vars

\* a view capture without windows and one whose two window parsers both lose
\* against the registered ones have been loaded: the only errors are two
\* OVERRIDE errors
C33_Witness ==
  /\ lastOp.op = "loadTraceFiles"
  /\ lastOp.input = << ViewCaptureEmpty, ViewCapture >>
  /\ Len(lastOp.errors) = 2
  /\ \A i \in DOMAIN lastOp.errors :
       lastOp.errors[i].type = "OVERRIDE" /\ lastOp.errors[i].trace = << ViewCapture.name >>
  /\ Len(parsers) = 2
  /\ \A i \in DOMAIN parsers : parsers[i].descriptors = << ViewCaptureBig.name >>

\* C34: for two property trees without deny-listed or calculated properties
\* isChildPropertyModified gives the same answer whichever of the two is
\* handed over as the new one; a property of the old tree that the new tree
\* lacks makes the node modified.
C34_Original ==
  diff.phase = "children compared" =>
    /\ diff.result.forward = diff.result.backward
    /\ (\E path \in LeafPaths :
          /\ path[Len(path)] \notin {"name", "dpiX", "cornerRadius", "area"}
          /\ HasLeaf(diff.oldTree, path) /\ ~HasLeaf(diff.newTree, path))
         => diff.result.forward

C36_Original ==
  NoHandlerInFlight =>
    /\ \A i, j \in DOMAIN sfPresenter.pinnedItems :
         i # j => sfPresenter.pinnedItems[i].id # sfPresenter.pinnedItems[j].id
    /\ \A i \in DOMAIN sfPresenter.pinnedItems :
         \E k \in DOMAIN sfPresenter.pinnedIds :
           sfPresenter.pinnedIds[k] = sfPresenter.pinnedItems[i].id

\* C37: when the position updates handed to the Surface Flinger presenter
\* have all returned, overlapping or not, the current hierarchy tree and the
\* tree last sent to the view are those of the entry of the update delivered
\* last, and the cached previous tree is unset or the value of the entry
\* before that entry.
C37_Original ==
  NoHandlerInFlight /\ sfPresenter.last.op = "onAppEvent" =>
    /\ sfPresenter.currentHierarchyTree = sfPresenter.latest
    /\ IF sfPresenter.latest = << >>
         THEN sfPresenter.view.tree = << >>
         ELSE /\ sfPresenter.view.tree # << >>
              /\ sfPresenter.view.tree[1].entry = sfPresenter.latest[1]
    /\ \/ sfPresenter.previousHierarchyTree = << >>
       \/ /\ sfPresenter.latest # << >>
          /\ sfPresenter.latest[1] > 0
          /\ sfPresenter.previousHierarchyTree = << sfPresenter.latest[1] - 1 >>

\* C38: whenever the Window Manager presenter notifies the view at the end
\* of a position update, its previous entry is null if its current entry is
\* null or has index 0, and is otherwise the value of the trace entry whose
\* index is one less than the current entry's.
C38_Original ==
  \A i \in DOMAIN wmPresenter.notified :
    wmPresenter.notified[i].previousEntry =
      IF wmPresenter.notified[i].entry = << >> \/ wmPresenter.notified[i].entry[1] = 0
        THEN << >>
        ELSE << wmPresenter.notified[i].entry[1] - 1 >>

\* C39: when two loadTraceFiles calls made on an empty pipeline have both
\* returned, overlapping or not, the Traces collection and the parser list
\* are those of running the two calls one after the other in one of the two
\* orders; when one call loaded the window-manager-side and the other the
\* shell-side transition file, the collection holds TRANSITION and neither
\* WM_TRANSITION nor SHELL_TRANSITION.
C39_Original ==
  NoCallInFlight /\ Len(overlap.inputs) = 2 =>
    /\ \E order \in {<< 1, 2 >>, << 2, 1 >>} :
         \E m \in {oneAfterTheOther(overlap.inputs[order[1]], overlap.inputs[order[2]])} :
           traces = m.traces /\ parsers = m.parsers
    /\ {overlap.inputs[1], overlap.inputs[2]} = {<< TrWm >>, << TrShell >>}
         => /\ "TRANSITION" \in DOMAIN traces
            /\ "WM_TRANSITION" \notin DOMAIN traces
            /\ "SHELL_TRANSITION" \notin DOMAIN traces

\* C40: AddRootProperties.makeProperties fails exactly when wmData or
\* shellData is missing or neither of them has an id or neither has a
\* realToElapsedTimeOffsetNs; otherwise it returns two calculated properties,
\* 'id' then 'realToElapsedTimeOffsetNs': the id of wmData when it has one,
\* else of shellData; the offset of wmData before that of shellData when the
\* entry has an 'aborted' child, of shellData before that of wmData when not.
C40_RootProperties ==
  rootProperties.phase = "made" =>
    LET value == rootProperties.value[1]
        result == rootProperties.result
        has == value.wmData # << >> /\ value.shellData # << >>
        ids == IF has THEN << value.wmData[1].id, value.shellData[1].id >> ELSE << >>
        wmOffset == IF has THEN value.wmData[1].realToElapsedTimeOffsetNs ELSE << >>
        shellOffset == IF has THEN value.shellData[1].realToElapsedTimeOffsetNs ELSE << >>
        offsets == IF value.aborted THEN << wmOffset, shellOffset >>
                   ELSE << shellOffset, wmOffset >>
        First(children) == IF children[1] # << >> THEN children[1][1] ELSE children[2][1]
    IN /\ rootProperties.threw <=>
            \/ ~has
            \/ \A i \in DOMAIN ids : ids[i] = << >>
            \/ \A i \in DOMAIN offsets : offsets[i] = << >>
       /\ ~rootProperties.threw =>
            /\ Len(result) = 2
            /\ \A i \in DOMAIN result : result[i].source = "CALCULATED"
            /\ result[1].name = "id"
            /\ result[1].value = First(ids)
            /\ result[2].name = "realToElapsedTimeOffsetNs"
            /\ result[2].value = First(offsets)

\* an entry with an 'aborted' child, an id on the shell side only and an
\* offset on both sides: the id is the shell side's, the offset the
\* window-manager side's
C40_Witness ==
  /\ rootProperties.phase = "made"
  /\ ~rootProperties.threw
  /\ rootProperties.value[1].aborted
  /\ rootProperties.value[1].wmData[1] = [id |-> << >>, realToElapsedTimeOffsetNs |-> << 10 >>]
  /\ rootProperties.value[1].shellData[1] = [id |-> << 2 >>, realToElapsedTimeOffsetNs |-> << 20 >>]
  /\ rootProperties.result[1].value = 2
  /\ rootProperties.result[2].value = 10

====
